---- MODULE Spec2Model ----
(***************************************************************************)
(* A model of the CMS server: the schema validator and the entry-data      *)
(* validator (validationService), the list-query builder (queryBuilder),   *)
(* and the collection and entry stores behind the admin and content        *)
(* routes, over the two storage engines of config/database.js.             *)
(***************************************************************************)
EXTENDS Integers, Sequences, FiniteSets, TLC

VARIABLES
  call,          \* the last call of a pure function: its arguments and its outcome
  db,            \* config/database.js `let db`: the storage handle, Undefined until opened
  foreign_keys,  \* the connection's PRAGMA foreign_keys
  collections,   \* rows of table collections, by id
  entries,       \* rows of table entries, by id
  seq,           \* AUTOINCREMENT high-water marks of the two tables
  response       \* what the last request was and how it ended

vars == <<call, db, foreign_keys, collections, entries, seq, response>>

(***************************************************************************)
(* JavaScript values.  A value is a record tagged with its typeof.  A      *)
(* string the code looks inside (trim, startsWith, slice, length, Number,  *)
(* parseInt, a regular expression) is the sequence of its characters; Text *)
(* turns one into the text a message or an SQL fragment embeds.  An object *)
(* is a function from its own keys.                                        *)
(***************************************************************************)
Undefined == [t |-> "undefined"]
Null      == [t |-> "null"]
NaN       == [t |-> "NaN"]
Infinity  == [t |-> "Infinity"]
Str(s)    == [t |-> "string", v |-> s]
Num(n)    == [t |-> "number", v |-> n]
Bool(b)   == [t |-> "boolean", v |-> b]
Arr(a)    == [t |-> "array", v |-> a]
Obj(o)    == [t |-> "object", v |-> o]

\* ToBoolean: what `!x`, `x || y`, `if (x)` and Boolean(x) see.
Truthy(x) ==
  CASE x.t = "undefined" -> FALSE
    [] x.t = "null"      -> FALSE
    [] x.t = "NaN"       -> FALSE
    [] x.t = "string"    -> x.v # << >>
    [] x.t = "number"    -> x.v # 0
    [] x.t = "boolean"   -> x.v
    [] OTHER             -> TRUE

\* obj[key]: undefined for a key the object does not own.
Get(obj, key) == IF key \in DOMAIN obj THEN obj[key] ELSE Undefined

\* obj[key] = value
Put(obj, key, value) ==
  [k \in (DOMAIN obj) \cup {key} |-> IF k = key THEN value ELSE obj[k]]

\* The key under which every object reaches its prototype.
sProto == <<"_","_","p","r","o","t","o","_","_">>
ObjectPrototype == Obj(<< >>)

\* obj[key] on an object literal or a parsed JSON body: the own key when there
\* is one, what Object.prototype holds otherwise, which under "__proto__" is
\* the prototype itself.
Property(obj, key) ==
  IF key \in DOMAIN obj THEN obj[key]
  ELSE IF key = sProto THEN ObjectPrototype ELSE Undefined

\* obj[key] = value on an object literal: "__proto__" is an accessor of
\* Object.prototype whose setter creates no own key.
Assign(obj, key, value) == IF key = sProto THEN obj ELSE Put(obj, key, value)

Digits == <<"0", "1", "2", "3", "4", "5", "6", "7", "8", "9">>
IsDigit(c) == \E d \in 1..10 : Digits[d] = c
DigitValue(c) == (CHOOSE d \in 1..10 : Digits[d] = c) - 1
IsSpace(c) == c \in {" ", "\t", "\n"}

RECURSIVE TrimStart(_)
TrimStart(s) == IF s # << >> /\ IsSpace(Head(s)) THEN TrimStart(Tail(s)) ELSE s

RECURSIVE TrimEnd(_)
TrimEnd(s) ==
  IF s # << >> /\ IsSpace(s[Len(s)]) THEN TrimEnd(SubSeq(s, 1, Len(s) - 1)) ELSE s

\* String.prototype.trim
Trim(s) == TrimEnd(TrimStart(s))

\* The decimal digits at the front of s, and their value.
RECURSIVE LeadingDigits(_)
LeadingDigits(s) ==
  IF s # << >> /\ IsDigit(Head(s)) THEN <<Head(s)>> \o LeadingDigits(Tail(s)) ELSE << >>

RECURSIVE DecimalValue(_)
DecimalValue(ds) ==
  IF ds = << >> THEN 0 ELSE 10 * DecimalValue(SubSeq(ds, 1, Len(ds) - 1)) + DigitValue(ds[Len(ds)])

\* String(n) for an integer n.
RECURSIVE NatToString(_)
NatToString(n) ==
  IF n < 10 THEN <<Digits[n + 1]>> ELSE NatToString(n \div 10) \o <<Digits[(n % 10) + 1]>>

IntToString(n) == IF n < 0 THEN <<"-">> \o NatToString(0 - n) ELSE NatToString(n)

\* The text of a sequence of characters.
RECURSIVE Text(_)
Text(s) == IF s = << >> THEN "" ELSE Head(s) \o Text(Tail(s))

\* Array.prototype.join over an array of texts.
RECURSIVE Join(_, _)
Join(a, sep) ==
  IF a = << >> THEN ""
  ELSE IF Len(a) = 1 THEN a[1]
  ELSE a[1] \o sep \o Join(Tail(a), sep)

sInfinity == <<"I","n","f","i","n","i","t","y">>

\* a < b between numbers, the second of which is finite.
Less(a, b) == a # Infinity /\ a.v < b.v
Greater(a, b) == a = Infinity \/ a.v > b.v

\* Number(x): a string converts when, trimmed, it is empty (0), an optionally
\* signed run of decimal digits, or Infinity; every other string of the model
\* is NaN.
NumberOf(x) ==
  CASE x.t = "number"    -> x
    [] x.t = "Infinity"  -> x
    [] x.t = "boolean"   -> Num(IF x.v THEN 1 ELSE 0)
    [] x.t = "null"      -> Num(0)
    [] x.t = "string"    ->
         LET s == Trim(x.v)
             neg == s # << >> /\ Head(s) = "-"
             body == IF s # << >> /\ Head(s) \in {"-", "+"} THEN Tail(s) ELSE s
         IN  IF s = << >> THEN Num(0)
             ELSE IF s \in {sInfinity, <<"+">> \o sInfinity} THEN Infinity
             ELSE IF body # << >> /\ LeadingDigits(body) = body
                  THEN Num(IF neg THEN 0 - DecimalValue(body) ELSE DecimalValue(body))
                  ELSE NaN
    [] OTHER             -> NaN

\* The calendar dates Date.parse accepts among the strings of the model: the
\* ISO form, and (V8's legacy parser) a bare month number.
ValidDates == { <<"2","0","2","4","-","0","1","-","0","2">>, <<"5">> }
IsNaNDateParse(s) == s \notin ValidDates

(***************************************************************************)
(* utils/errors.js                                                         *)
(***************************************************************************)
ValidationError(message, details) ==
  [class |-> "ValidationError", statusCode |-> 400, message |-> message, details |-> details]

NotFoundError(message) ==
  [class |-> "NotFoundError", statusCode |-> 404, message |-> message]

Throw(err) == [kind |-> "throw", error |-> err]
Return(value) == [kind |-> "return", value |-> value]

(***************************************************************************)
(* services/validationService.js: field definitions                        *)
(***************************************************************************)
\* A field definition, an element of a collection's field list.  An attribute
\* the definition does not carry is Undefined.
Field(name, type, required, default, maxLength, min, max, options, label) ==
  [name |-> name, type |-> type, required |-> required, default |-> default,
   maxLength |-> maxLength, min |-> min, max |-> max, options |-> options,
   label |-> label]

\* A type name: the code only compares it, so it stays one piece.
TypeName(s) == Str(<<s>>)
VALID_TYPES ==
  <<TypeName("string"), TypeName("text"), TypeName("number"), TypeName("boolean"),
    TypeName("select"), TypeName("date"), TypeName("markdown")>>

Includes(array, x) == \E k \in 1..Len(array) : array[k] = x

\* `fields[${i}].<prop>`, i counted from 0 as forEach counts.
FieldPath(i, prop) == "fields[" \o Text(IntToString(i - 1)) \o "]." \o prop

\* !field.name || !field.name.trim()
NameMissing(field) == ~Truthy(field.name) \/ ~Truthy(Str(Trim(field.name.v)))

\* names.add(field.name), on the branch that reports nothing
NamesAddNever(names, field) == names
NamesAdd(names, field) == names \cup {field.name.v}

\* The name check of one element: what it reports and the names seen after it.
CheckName(field, i, names) ==
  IF NameMissing(field)
  THEN [errors |-> <<[field |-> FieldPath(i, "name"),
                      message |-> "Field name is required"]>>,
        names |-> names]
  ELSE IF field.name.v \in names
  THEN [errors |-> <<[field |-> FieldPath(i, "name"),
                      message |-> "Duplicate field name \"" \o Text(field.name.v) \o "\""]>>,
        names |-> names]
  ELSE [errors |-> << >>, names |-> NamesAdd(names, field)]

\* !field.type || !VALID_TYPES.includes(field.type)
CheckType(field, i) ==
  IF ~Truthy(field.type) \/ ~Includes(VALID_TYPES, field.type)
  THEN <<[field |-> FieldPath(i, "type"),
          message |-> "Invalid type. Must be one of: "
                        \o Join([k \in 1..Len(VALID_TYPES) |-> Text(VALID_TYPES[k].v)], ", ")]>>
  ELSE << >>

\* !field.options || !Array.isArray(field.options) || field.options.length === 0
OptionsInvalidUnlessEmpty(field) ==
  ~Truthy(field.options) \/ field.options.t # "array"
OptionsInvalid(field) ==
  ~Truthy(field.options) \/ field.options.t # "array" \/ Len(field.options.v) = 0

CheckOptions(field, i) ==
  IF field.type = TypeName("select") /\ OptionsInvalid(field)
  THEN <<[field |-> FieldPath(i, "options"),
          message |-> "Select fields must have at least one option"]>>
  ELSE << >>

\* The forEach of validateFieldDefinitions from element i on.
RECURSIVE DefinitionErrors(_, _, _)
DefinitionErrors(fields, i, names) ==
  IF i > Len(fields) THEN << >>
  ELSE LET n == CheckName(fields[i], i, names)
       IN  n.errors \o CheckType(fields[i], i) \o CheckOptions(fields[i], i)
             \o DefinitionErrors(fields, i + 1, n.names)

validateFieldDefinitions(fields) ==
  IF fields.t # "array"
  THEN Throw(ValidationError("Fields must be an array", << >>))
  ELSE LET errors == DefinitionErrors(fields.v, 1, {})
       IN  IF Len(errors) > 0
           THEN Throw(ValidationError("Invalid field definitions", errors))
           ELSE Return(Undefined)

(***************************************************************************)
(* services/validationService.js: entry data                               *)
(***************************************************************************)
\* value === undefined || value === null || value === ''
IsMissing(value) == value = Undefined \/ value = Null \/ value = Str(<< >>)

\* field.label || field.name
LabelOf(field) == IF Truthy(field.label) THEN field.label.v ELSE field.name.v

FieldError(field, text) == [field |-> field.name.v, message |-> Text(LabelOf(field)) \o text]

\* field.required && (value missing)
RequiredMissingNever(field, value) == FALSE
RequiredMissing(field, value) == Truthy(field.required) /\ IsMissing(value)

\* The value an optional field gets when the data carries none.
DefaultValueEmpty(field) ==
  IF field.default # Undefined THEN field.default ELSE Str(<< >>)
DefaultValue(field) ==
  IF field.default # Undefined THEN field.default
  ELSE IF field.type = TypeName("boolean") THEN Bool(FALSE) ELSE Str(<< >>)

\* The switch over field.type for a value that is present: the errors it
\* pushes, and whether and what it writes to cleaned[field.name].
CheckValue(field, value) ==
  CASE field.type = TypeName("string") ->
         IF value.t # "string"
         THEN [errors |-> <<FieldError(field, " must be a string")>>, set |-> FALSE]
         ELSE [errors |-> IF Truthy(field.maxLength) /\ Len(value.v) > field.maxLength.v
                          THEN <<FieldError(field, " must be at most "
                                   \o Text(IntToString(field.maxLength.v)) \o " characters")>>
                          ELSE << >>,
               set |-> TRUE, value |-> value]
    [] field.type \in {TypeName("text"), TypeName("markdown")} ->
         IF value.t # "string"
         THEN [errors |-> <<FieldError(field, " must be a string")>>, set |-> FALSE]
         ELSE [errors |-> << >>, set |-> TRUE, value |-> value]
    [] field.type = TypeName("number") ->
         LET num == NumberOf(value)
         IN  IF num = NaN
             THEN [errors |-> <<FieldError(field, " must be a number")>>, set |-> FALSE]
             ELSE [errors |->
                     (IF field.min # Undefined /\ Less(num, field.min)
                      THEN <<FieldError(field, " must be at least " \o Text(IntToString(field.min.v)))>>
                      ELSE << >>)
                     \o
                     (IF field.max # Undefined /\ Greater(num, field.max)
                      THEN <<FieldError(field, " must be at most " \o Text(IntToString(field.max.v)))>>
                      ELSE << >>),
                   set |-> TRUE, value |-> num]
    [] field.type = TypeName("boolean") ->
         [errors |-> << >>, set |-> TRUE, value |-> Bool(Truthy(value))]
    [] field.type = TypeName("select") ->
         IF ~Truthy(field.options) \/ ~Includes(field.options.v, value)
         THEN [errors |-> <<FieldError(field, " must be one of: "
                   \o Join(IF Truthy(field.options)
                           THEN [k \in 1..Len(field.options.v) |-> Text(field.options.v[k].v)]
                           ELSE << >>, ", "))>>,
               set |-> FALSE]
         ELSE [errors |-> << >>, set |-> TRUE, value |-> value]
    [] field.type = TypeName("date") ->
         IF value.t # "string" \/ IsNaNDateParse(value.v)
         THEN [errors |-> <<FieldError(field, " must be a valid date")>>, set |-> FALSE]
         ELSE [errors |-> << >>, set |-> TRUE, value |-> value]
    [] OTHER ->
         [errors |-> << >>, set |-> TRUE, value |-> value]

\* One iteration of the for loop: field against data[field.name].
CheckField(field, data) ==
  LET value == Property(data, field.name.v)
  IN  IF RequiredMissing(field, value)
      THEN [errors |-> <<FieldError(field, " is required")>>, set |-> FALSE]
      ELSE IF IsMissing(value)
      THEN [errors |-> << >>, set |-> TRUE, value |-> DefaultValue(field)]
      ELSE CheckValue(field, value)

\* const cleaned = {}
NewCleanedCopy(data) == data
NewCleaned(data) == << >>

\* The loop from element i on, threading (errors, cleaned).
RECURSIVE EntryPassFailFast(_, _, _, _, _)
EntryPassFailFast(fields, data, i, errors, cleaned) ==
  IF i > Len(fields) \/ errors # << >> THEN [errors |-> errors, cleaned |-> cleaned]
  ELSE LET r == CheckField(fields[i], data)
       IN  EntryPassFailFast(fields, data, i + 1, errors \o r.errors,
                             IF r.set THEN Assign(cleaned, fields[i].name.v, r.value) ELSE cleaned)
RECURSIVE EntryPass(_, _, _, _, _)
EntryPass(fields, data, i, errors, cleaned) ==
  IF i > Len(fields) THEN [errors |-> errors, cleaned |-> cleaned]
  ELSE LET r == CheckField(fields[i], data)
       IN  EntryPass(fields, data, i + 1, errors \o r.errors,
                     IF r.set THEN Assign(cleaned, fields[i].name.v, r.value) ELSE cleaned)

validateEntryData(fields, data) ==
  LET pass == EntryPass(fields, data, 1, << >>, NewCleaned(data))
  IN  IF Len(pass.errors) > 0
      THEN Throw(ValidationError("Validation failed", pass.errors))
      ELSE Return(pass.cleaned)

(***************************************************************************)
(* Inputs of the validators                                                *)
(***************************************************************************)
MaxSchemaFields == 3
MaxEntryFields == 2

SeqsUpTo(S, n) == UNION {[1..k -> S] : k \in 0..n}

sA == <<"a">>
sB == <<"b">>
sZ == <<"z">>
s5 == <<"5">>
sHi == <<"h", "i">>
sDate == <<"2","0","2","4","-","0","1","-","0","2">>

\* Field definitions as a request body may carry them: name absent, blank or
\* given; type absent, unknown or known; a select with its options absent, not
\* a list, empty or given.
SchemaNames == {Undefined, Str(<<" ">>), Str(sA), Str(sB)}
SchemaFieldInputs ==
  { Field(n, ty, Undefined, Undefined, Undefined, Undefined, Undefined, Undefined, Undefined) :
      n \in SchemaNames, ty \in {Undefined, TypeName("number"), TypeName("color")} }
  \cup
  { Field(n, TypeName("select"), Undefined, Undefined, Undefined, Undefined, Undefined, o, Undefined) :
      n \in SchemaNames, o \in {Undefined, Str(<<"x">>), Arr(<< >>), Arr(<<Str(<<"x">>)>>)} }

SchemaInputs ==
  { Arr(f) : f \in SeqsUpTo(SchemaFieldInputs, MaxSchemaFields) }
  \cup {Undefined, Str(<<"x">>), Obj(<< >>)}

\* Field definitions of a collection: each type as a required field, as an
\* optional one, and as an optional one with a default.
Requirements == { <<Bool(TRUE), Undefined>>, <<Undefined, Undefined>>, <<Bool(FALSE), Str(s5)>> }
EntryFieldInputs ==
  UNION { { Field(Str(sA), TypeName("string"), r[1], r[2], Num(2), Undefined, Undefined, Undefined, Undefined),
            Field(Str(sA), TypeName("number"), r[1], r[2], Undefined, Num(1), Num(7), Undefined, Undefined),
            Field(Str(sA), TypeName("boolean"), r[1], r[2], Undefined, Undefined, Undefined, Undefined, Undefined),
            Field(Str(sA), TypeName("select"), r[1], r[2], Undefined, Undefined, Undefined,
                  Arr(<<Str(s5), Str(sHi)>>), Undefined),
            Field(Str(sA), TypeName("date"), r[1], r[2], Undefined, Undefined, Undefined, Undefined, Undefined) } :
          r \in Requirements }
  \cup
  { Field(Str(sA), TypeName("text"), Undefined, Undefined, Undefined, Undefined, Undefined, Undefined, Undefined),
    Field(Str(sA), TypeName("color"), Undefined, Undefined, Undefined, Undefined, Undefined, Undefined, Undefined),
    Field(Str(sB), TypeName("string"), Bool(TRUE), Undefined, Undefined, Undefined, Undefined, Undefined,
          Str(<<"Title">>)),
    Field(Str(sB), TypeName("number"), Undefined, Num(5), Undefined, Undefined, Undefined, Undefined, Undefined) }

EntryFieldLists == SeqsUpTo(EntryFieldInputs, MaxEntryFields)

\* Entry data as a request body may carry it: an object over the two field
\* names and a key no field list has.
DataInputs ==
  UNION { { [k \in K |-> IF k = sA THEN va ELSE Str(sHi)] :
              va \in {Null, Str(<< >>), Str(s5), Str(sHi), Str(sDate), Num(5), Bool(FALSE)} } :
          K \in SUBSET {sA, sB, sZ} }

Pending == [kind |-> "pending"]
NoCall == [fn |-> "none"]

(***************************************************************************)
(* The validators, called on every input                                   *)
(***************************************************************************)
store == <<db, foreign_keys, collections, entries, seq, response>>

StoreClosed ==
  /\ db = Undefined
  /\ foreign_keys = FALSE
  /\ collections = << >>
  /\ entries = << >>
  /\ seq = [collections |-> 0, entries |-> 0]
  /\ response = [op |-> "none", status |-> 0, error |-> "none", message |-> ""]

InitSchema ==
  /\ call \in { [fn |-> "validateFieldDefinitions", fields |-> f, result |-> Pending] :
                  f \in SchemaInputs }
  /\ StoreClosed

CallValidateFieldDefinitions ==
  /\ call.fn = "validateFieldDefinitions"
  /\ call.result = Pending
  /\ call' = [call EXCEPT !.result = validateFieldDefinitions(call.fields)]
  /\ UNCHANGED store

NextSchema == CallValidateFieldDefinitions

SpecSchema == InitSchema /\ [][NextSchema]_vars

InitEntryData ==
  /\ call \in { [fn |-> "validateEntryData", fields |-> f, data |-> d,
                 result |-> Pending, again |-> Pending] :
                  f \in EntryFieldLists, d \in DataInputs }
  /\ StoreClosed

CallValidateEntryData ==
  /\ call.fn = "validateEntryData"
  /\ call.result = Pending
  /\ call' = [call EXCEPT !.result = validateEntryData(call.fields, call.data)]
  /\ UNCHANGED store

\* The cleaned object handed back to the validator with the same field list.
CallValidateEntryDataAgain ==
  /\ call.fn = "validateEntryData"
  /\ call.result.kind = "return"
  /\ call.again = Pending
  /\ call' = [call EXCEPT !.again = validateEntryData(call.fields, call.result.value)]
  /\ UNCHANGED store

NextEntryData == CallValidateEntryData \/ CallValidateEntryDataAgain

SpecEntryData == InitEntryData /\ [][NextEntryData]_vars

(***************************************************************************)
(* Field names as keys: validateEntryData on field lists whose names       *)
(* include "__proto__", and data that carries or lacks each name.          *)
(***************************************************************************)
KeyNames == {sA, sB, sProto}
KeyFields ==
  { Field(Str(n), TypeName(ty), r, Undefined, Undefined, Undefined, Undefined, Undefined, Undefined) :
      n \in KeyNames, ty \in {"string", "boolean"}, r \in {Undefined, Bool(TRUE)} }
KeyData == UNION { [K -> {Str(sHi)}] : K \in SUBSET KeyNames }

InitKeys ==
  /\ call \in { [fn |-> "validateEntryData", fields |-> f, data |-> d,
                 result |-> Pending, again |-> Pending] :
                  f \in SeqsUpTo(KeyFields, MaxEntryFields), d \in KeyData }
  /\ StoreClosed

SpecKeys == InitKeys /\ [][NextEntryData]_vars

\* Both validators, each called on every input.
InitValidators == InitSchema \/ InitEntryData
NextValidators == NextSchema \/ NextEntryData
SpecValidators == InitValidators /\ [][NextValidators]_vars

\* validateEntryData on one string field with every maxLength from 0 up, and
\* without one, against the prefixes of the specification's "toolong" and a
\* value that is no string.
MaxLengthLimit == 5

sTooLong == <<"t","o","o","l","o","n","g">>
LimitFields ==
  { <<Field(Str(sA), TypeName("string"), r, Undefined, m, Undefined, Undefined, Undefined,
            Undefined)>> :
      r \in {Bool(TRUE), Undefined},
      m \in {Undefined} \cup {Num(n) : n \in 0..MaxLengthLimit} }
LimitData ==
  { [k \in {sA} |-> Str(SubSeq(sTooLong, 1, n))] : n \in 0..Len(sTooLong) }
  \cup { [k \in {sA} |-> Num(5)] }

InitLimits ==
  /\ call \in { [fn |-> "validateEntryData", fields |-> f, data |-> d,
                 result |-> Pending, again |-> Pending] :
                  f \in LimitFields, d \in LimitData }
  /\ StoreClosed

SpecLimits == InitLimits /\ [][NextEntryData]_vars

(***************************************************************************)
(* utils/queryBuilder.js                                                   *)
(***************************************************************************)
\* parseInt(x): x as a string, leading blanks skipped, an optional sign, then
\* the leading decimal digits; NaN when there are none.
ParseIntString(str) ==
  LET s == TrimStart(str)
      neg == s # << >> /\ Head(s) = "-"
      body == IF s # << >> /\ Head(s) \in {"-", "+"} THEN Tail(s) ELSE s
      ds == LeadingDigits(body)
  IN  IF ds = << >> THEN NaN
      ELSE Num(IF neg THEN 0 - DecimalValue(ds) ELSE DecimalValue(ds))

ParseInt(x) ==
  CASE x.t = "string" -> ParseIntString(x.v)
    [] x.t = "number" -> ParseIntString(IntToString(x.v))
    [] OTHER          -> NaN

\* x || d
OrElse(x, d) == IF Truthy(x) THEN x ELSE d

Max(a, b) == IF a >= b THEN a ELSE b
Min(a, b) == IF a <= b THEN a ELSE b

\* The sequences of a sequence, one after the other.
RECURSIVE Flatten(_)
Flatten(seqs) == IF seqs = << >> THEN << >> ELSE Head(seqs) \o Flatten(Tail(seqs))

\* A mapping in the order Object.entries walks it: a sequence of <<key, value>>.
Entries(pairs) == [t |-> "object", entries |-> pairs]

\* Object.entries(filters) when filters is given
FilterEntries(q) == IF Truthy(q.filters) THEN q.filters.entries ELSE << >>

\* The predicates pushed to `conditions`, in order.
Conditions(q) ==
  (IF Truthy(q.status) THEN <<"e.status = ?">> ELSE << >>)
  \o [k \in 1..Len(FilterEntries(q)) |->
        "json_extract(e.data, '$." \o Text(FilterEntries(q)[k][1]) \o "') = ?"]

\* The values pushed to `params`, in order.
ParamsFiltersFirst(q) ==
  [k \in 1..Len(FilterEntries(q)) |-> FilterEntries(q)[k][2]]
  \o (IF Truthy(q.status) THEN <<q.status>> ELSE << >>)
Params(q) ==
  (IF Truthy(q.status) THEN <<q.status>> ELSE << >>)
  \o [k \in 1..Len(FilterEntries(q)) |-> FilterEntries(q)[k][2]]

WhereClause(q) ==
  IF Len(Conditions(q)) > 0 THEN "WHERE " \o Join(Conditions(q), " AND ") ELSE ""

SortableColumns ==
  << <<"c","r","e","a","t","e","d","_","a","t">>,
     <<"u","p","d","a","t","e","d","_","a","t">>,
     <<"i","d">>,
     <<"s","t","a","t","u","s">> >>

\* The ORDER BY fragment for a sort parameter.
OrderClauseAnyColumn(sort) ==
  IF Truthy(sort)
  THEN LET desc == Head(sort.v) = "-"
           field == IF desc THEN Tail(sort.v) ELSE sort.v
       IN  "ORDER BY e." \o Text(field) \o " " \o (IF desc THEN "DESC" ELSE "ASC")
  ELSE "ORDER BY e.created_at DESC"
OrderClause(sort) ==
  IF Truthy(sort)
  THEN LET desc == Head(sort.v) = "-"
           field == IF desc THEN Tail(sort.v) ELSE sort.v
       IN  IF Includes(SortableColumns, field)
           THEN "ORDER BY e." \o Text(field) \o " " \o (IF desc THEN "DESC" ELSE "ASC")
           ELSE "ORDER BY e.created_at DESC"
  ELSE "ORDER BY e.created_at DESC"

\* Math.max(1, parseInt(page) || 1)
CurrentPageUnclamped(page) == OrElse(ParseInt(page), Num(1)).v
CurrentPage(page) == Max(1, OrElse(ParseInt(page), Num(1)).v)

\* Math.min(100, Math.max(1, parseInt(perPage) || 20))
Limit(perPage) == Min(100, Max(1, OrElse(ParseInt(perPage), Num(20)).v))

buildQuery(q) ==
  [whereClause |-> WhereClause(q),
   orderClause |-> OrderClause(q.sort),
   limit |-> Limit(q.perPage),
   offset |-> (CurrentPage(q.page) - 1) * Limit(q.perPage),
   params |-> Params(q),
   currentPage |-> CurrentPage(q.page)]

(***************************************************************************)
(* Inputs of the query builder, and the builder called on every input      *)
(***************************************************************************)
MaxFilters == 2
MaxPage == 3
MaxPerPage == 102

StatusInputs == {Undefined, Str(<< >>), Str(<<"draft">>), Str(<<"published">>)}

FilterKeys == {<<"category">>, <<"tag">>}
FilterValues == {Str(<<"tech">>), Str(<<"x">>)}
\* Mappings: no key twice.
FilterInputs ==
  {Undefined} \cup
  { Entries(f) : f \in { g \in SeqsUpTo(FilterKeys \X FilterValues, MaxFilters) :
                           \A i, j \in 1..Len(g) : g[i][1] = g[j][1] => i = j } }

SortInputs ==
  {Undefined, Str(<< >>), Str(<<"-">>)}
  \cup { Str(c) : c \in {SortableColumns[k] : k \in 1..4} }
  \cup { Str(<<"-">> \o c) : c \in {SortableColumns[k] : k \in 1..4} }
  \cup { Str(<<"-", "-", "i", "d">>), Str(<<"i", "d", " ">>), Str(<<"I", "D">>),
         Str(<<"t","i","t","l","e">>), Str(<<"-","t","i","t","l","e">>),
         Str(<<"i","d",";","D","R","O","P">>) }

PageInputs ==
  {Undefined, Str(<<"x">>), Num(2)} \cup { Str(IntToString(n)) : n \in -1..MaxPage }

PerPageInputs ==
  {Undefined, Str(<<"x">>), Str(<<"7", "x">>), Num(5)}
  \cup { Str(IntToString(n)) : n \in (-2..3) \cup {20} \cup (99..MaxPerPage) }

InitQuery ==
  /\ call \in { [fn |-> "buildQuery",
                 q |-> [status |-> st, filters |-> f, sort |-> so, page |-> pg, perPage |-> pp],
                 result |-> Pending] :
                  st \in StatusInputs, f \in FilterInputs, so \in SortInputs,
                  pg \in PageInputs, pp \in PerPageInputs }
  /\ StoreClosed

CallBuildQuery ==
  /\ call.fn = "buildQuery"
  /\ call.result = Pending
  /\ call' = [call EXCEPT !.result = Return(buildQuery(call.q))]
  /\ UNCHANGED store

NextQuery == CallBuildQuery

SpecQuery == InitQuery /\ [][NextQuery]_vars

\* buildQuery on page and perPage alone: absent, null, not a number, zero,
\* negative, small, at and over the cap, huge; as query strings and as numbers.
PaginationIntegers == {-5, -1, 0, 1, 2, 3, 20, 100, 101, 1000000}
NotNumbers == {Undefined, Null, Str(<< >>), Str(<<"x">>), Str(<<"-">>), Bool(TRUE)}
PaginationInputs ==
  NotNumbers
  \cup { Str(IntToString(n)) : n \in PaginationIntegers }
  \cup { Num(n) : n \in PaginationIntegers }

InitPagination ==
  /\ call \in { [fn |-> "buildQuery",
                 q |-> [status |-> Undefined, filters |-> Undefined, sort |-> Undefined,
                        page |-> pg, perPage |-> pp],
                 result |-> Pending] :
                  pg \in PaginationInputs, pp \in PaginationInputs }
  /\ StoreClosed

SpecPagination == InitPagination /\ [][NextQuery]_vars

(***************************************************************************)
(* config/database.js: the storage handle and the engine's statements      *)
(***************************************************************************)
\* The two variants of the handle: node:sqlite's DatabaseSync, and the
\* DbWrapper around a sql.js database.
DatabaseSync == [class |-> "DatabaseSync"]
DbWrapper == [class |-> "DbWrapper"]

\* DbWrapper._save(): sql.js export() closes and reopens the database, which
\* puts every pragma back to its default, foreign_keys = OFF.  DatabaseSync
\* statements leave the connection alone.
AfterWrite(handle, pragma) == IF handle = DbWrapper THEN FALSE ELSE pragma

\* An error of the engine or the runtime: no statusCode, no details.
SqliteError == [class |-> "SqliteError", message |-> "constraint failed"]
TypeError == [class |-> "TypeError", message |-> "fields is not iterable"]

\* JSON.parse(JSON.stringify(x)) of an object: a key whose value is undefined
\* is not written, NaN and Infinity are written as null.
JsonObject(o) ==
  [k \in {j \in DOMAIN o : o[j] # Undefined} |-> IF o[k] \in {NaN, Infinity} THEN Null ELSE o[k]]

Rows(table) == {table[id] : id \in DOMAIN table}

\* DELETE FROM collections WHERE id = ?, with ON DELETE CASCADE on
\* entries.collection_id when the connection enforces foreign keys.
EntriesAfterCollectionDelete(id) ==
  IF foreign_keys
  THEN [e \in {x \in DOMAIN entries : entries[x].collection_id # id} |-> entries[e]]
  ELSE entries

(***************************************************************************)
(* services/collectionService.js                                           *)
(***************************************************************************)
UpperLetters == <<"A","B","C","D","E","F","G","H","I","J","K","L","M",
                  "N","O","P","Q","R","S","T","U","V","W","X","Y","Z">>
LowerLetters == <<"a","b","c","d","e","f","g","h","i","j","k","l","m",
                  "n","o","p","q","r","s","t","u","v","w","x","y","z">>

ToLowerChar(c) ==
  IF \E k \in 1..26 : UpperLetters[k] = c
  THEN LowerLetters[CHOOSE k \in 1..26 : UpperLetters[k] = c]
  ELSE c
ToLowerCase(s) == [k \in 1..Len(s) |-> ToLowerChar(s[k])]

\* \w
IsWord(c) ==
  \/ \E k \in 1..26 : UpperLetters[k] = c \/ LowerLetters[k] = c
  \/ IsDigit(c)
  \/ c = "_"

KeepSlugChar(c) == IsWord(c) \/ IsSpace(c) \/ c = "-"
SpacesAndUnderscore == {" ", "\t", "\n", "_"}

\* s.replace(/[class]+/g, '-'): every maximal run of the class becomes one hyphen.
RECURSIVE RunsToHyphen(_, _)
RunsToHyphen(s, class) ==
  IF s = << >> THEN << >>
  ELSE IF Head(s) \in class
       THEN IF Len(s) > 1 /\ s[2] \in class
            THEN RunsToHyphen(Tail(s), class)
            ELSE <<"-">> \o RunsToHyphen(Tail(s), class)
       ELSE <<Head(s)>> \o RunsToHyphen(Tail(s), class)

\* s.replace(/^-|-$/g, '')
StripEdgeHyphensNot(s) == s
StripEdgeHyphens(s) ==
  LET a == IF s # << >> /\ Head(s) = "-" THEN Tail(s) ELSE s
  IN  IF a # << >> /\ a[Len(a)] = "-" THEN SubSeq(a, 1, Len(a) - 1) ELSE a

slugify(text) ==
  StripEdgeHyphens(
    RunsToHyphen(
      RunsToHyphen(
        SelectSeq(Trim(ToLowerCase(text)), KeepSlugChar),
        SpacesAndUnderscore),
      {"-"}))

\* slugify called on every name of up to MaxNameLen characters over letters of
\* both cases, a digit, the separators and a special character, and on the
\* name of the specification's scenario.
MaxNameLen == 4

nBlogPosts == <<"B","l","o","g"," ","P","o","s","t","s","!","!">>
NameCharacters == {"B", "l", "1", " ", "_", "-", "!"}
NameInputs == SeqsUpTo(NameCharacters, MaxNameLen) \cup {nBlogPosts}

InitSlug ==
  /\ call \in { [fn |-> "slugify", text |-> n, result |-> Pending] : n \in NameInputs }
  /\ StoreClosed

CallSlugify ==
  /\ call.fn = "slugify"
  /\ call.result = Pending
  /\ call' = [call EXCEPT !.result = Return(slugify(call.text))]
  /\ UNCHANGED store

NextSlug == CallSlugify

SpecSlug == InitSlug /\ [][NextSlug]_vars

\* SELECT * FROM collections WHERE slug = ?
getCollectionBySlug(slug) ==
  IF \E c \in Rows(collections) : c.slug = slug
  THEN Return(CHOOSE c \in Rows(collections) : c.slug = slug)
  ELSE Throw(NotFoundError("Collection \"" \o Text(slug) \o "\" not found"))

\* SELECT * FROM collections WHERE id = ?
getCollectionById(id) ==
  IF id \in DOMAIN collections
  THEN Return(collections[id])
  ELSE Throw(NotFoundError("Collection with id " \o Text(IntToString(id)) \o " not found"))

\* The UNIQUE constraints of table collections, for a row written at id.
UniqueViolated(id, name, slug) ==
  \E c \in Rows(collections) : c.id # id /\ (c.name = name \/ c.slug = slug)

\* SELECT id FROM collections WHERE slug = ? (AND id != ?): is there a row.
\* Ids start at 1, so createCollection's unrestricted SELECT is id != 0.
SlugInUseNever(slug, id) == FALSE
SlugInUse(slug, id) ==
  \E c \in Rows(collections) : c.slug = slug /\ c.id # id

\* if (!name || !name.trim())
NoName(body) == ~Truthy(body.name) \/ ~Truthy(Str(Trim(body.name.v)))

SlugConflict(slug) ==
  ValidationError("A collection with slug \"" \o Text(slug) \o "\" already exists", << >>)

\* INSERT INTO collections (name, slug, description, fields): the engine's
\* failure, or the row inserted.
InsertCollection(body) ==
  IF UniqueViolated(0, Trim(body.name.v), slugify(body.name.v))
  THEN Throw(SqliteError)
  ELSE Return([id |-> seq.collections + 1,
               name |-> Trim(body.name.v),
               slug |-> slugify(body.name.v),
               description |-> OrElse(body.description, Str(<< >>)),
               fields |-> OrElse(body.fields, Arr(<< >>))])

\* createCollection up to its INSERT: the failure it throws, or the row it inserts.
createCollection(body) ==
  IF NoName(body)
  THEN Throw(ValidationError("Collection name is required", << >>))
  ELSE IF SlugInUse(slugify(body.name.v), 0)
  THEN Throw(SlugConflict(slugify(body.name.v)))
  ELSE InsertCollection(body)

\* updateCollection up to its UPDATE: the failure it throws, or the row it writes.
updateCollectionReplacing(id, body) ==
  IF id \notin DOMAIN collections THEN getCollectionById(id)
  ELSE Return([id |-> id, name |-> collections[id].name, slug |-> collections[id].slug,
               description |-> OrElse(body.description, Str(<< >>)),
               fields |-> OrElse(body.fields, Arr(<< >>))])
updateCollection(id, body) ==
  LET found == getCollectionById(id)
  IN  IF found.kind = "throw" THEN found
      ELSE LET existing == found.value
               updatedName == IF body.name # Undefined THEN Trim(body.name.v) ELSE existing.name
               updatedSlug == IF body.name # Undefined THEN slugify(body.name.v) ELSE existing.slug
               updatedDescription ==
                 IF body.description # Undefined THEN body.description ELSE existing.description
               updatedFields == IF body.fields # Undefined THEN body.fields ELSE existing.fields
           IN  IF body.name # Undefined /\ SlugInUse(updatedSlug, id)
               THEN Throw(SlugConflict(updatedSlug))
               ELSE IF UniqueViolated(id, updatedName, updatedSlug)
               THEN Throw(SqliteError)
               ELSE Return([id |-> id, name |-> updatedName, slug |-> updatedSlug,
                            description |-> updatedDescription, fields |-> updatedFields])

(***************************************************************************)
(* services/entryService.js                                                *)
(***************************************************************************)
\* SELECT * FROM entries WHERE id = ? AND collection_id = ?
getEntryByIdAnyCollection(collection, id) ==
  IF id \in DOMAIN entries
  THEN Return(entries[id])
  ELSE Throw(NotFoundError("Entry with id " \o Text(IntToString(id)) \o " not found in \""
                             \o Text(collection.name) \o "\""))
getEntryById(collection, id) ==
  IF id \in DOMAIN entries /\ entries[id].collection_id = collection.id
  THEN Return(entries[id])
  ELSE Throw(NotFoundError("Entry with id " \o Text(IntToString(id)) \o " not found in \""
                             \o Text(collection.name) \o "\""))

\* The text with which a filter key ends the path literal of its condition
\* early: "json_extract(e.data, '$." + key + "') = ?" is then read by the
\* engine as two predicates joined by OR.
sBreakout ==
  <<"'",")"," ","I","S"," ","N","O","T"," ","N","U","L","L"," ","O","R"," ","j","s","o","n","_","e","x","t","r","a","c","t","(","e",".","d","a","t","a",","," ","'","$",".">>
sQuote == "'"
HasQuote(chars) == \E i \in 1..Len(chars) : chars[i] = sQuote
BreakoutAt(key) ==
  {i \in 1..Len(key) : /\ i + Len(sBreakout) - 1 <= Len(key)
                       /\ SubSeq(key, i, i + Len(sBreakout) - 1) = sBreakout
                       /\ ~HasQuote(SubSeq(key, 1, i - 1))
                       /\ ~HasQuote(SubSeq(key, i + Len(sBreakout), Len(key)))}

SyntaxError == [class |-> "SqliteError", message |-> "unrecognized token"]

\* One predicate of a WHERE clause as the engine reads it: the connective
\* before it, the column (and the JSON path under e.data), the test, and the
\* value bound to its placeholder.
Term(connective, column, path, test, param) ==
  [connective |-> connective, column |-> column, path |-> path, test |-> test, param |-> param]

\* What prepare() reads in the condition of one filter: the equality on the
\* path for a key without a quote, two predicates for a key holding sBreakout,
\* and a syntax error for any other key with a quote.
FilterTerms(key, value) ==
  IF ~HasQuote(key)
  THEN Return(<<Term("AND", "data", key, "=", value)>>)
  ELSE IF BreakoutAt(key) # {}
  THEN LET i == CHOOSE j \in BreakoutAt(key) : TRUE
       IN  Return(<<Term("AND", "data", SubSeq(key, 1, i - 1), "IS NOT NULL", Undefined),
                    Term("OR", "data", SubSeq(key, i + Len(sBreakout), Len(key)), "=", value)>>)
  ELSE Throw(SyntaxError)

\* `WHERE e.collection_id = ? AND ${whereClause.replace('WHERE ', '')}` with
\* (collection.id, ...params): the predicates in the order of the text.
WhereTerms(collection, q) ==
  LET read == [k \in 1..Len(FilterEntries(q)) |->
                 FilterTerms(FilterEntries(q)[k][1], FilterEntries(q)[k][2])]
  IN  IF \E k \in 1..Len(read) : read[k].kind = "throw"
      THEN Throw(SyntaxError)
      ELSE Return(<<Term("AND", "collection_id", << >>, "=", Num(collection.id))>>
                  \o (IF Truthy(q.status)
                      THEN <<Term("AND", "status", << >>, "=", q.status)>>
                      ELSE << >>)
                  \o Flatten([k \in 1..Len(read) |-> read[k].value]))

\* json_extract(e.data, '$.path'): NULL for a missing key or a JSON null, an
\* integer for a number or a boolean, a text for a string.
JsonExtract(row, path) ==
  LET v == Get(row.data, path)
  IN  CASE v.t = "string"  -> v
        [] v.t = "number"  -> v
        [] v.t = "boolean" -> Num(IF v.v THEN 1 ELSE 0)
        [] OTHER           -> Null

ColumnValue(term, row) ==
  CASE term.column = "collection_id" -> Num(row.collection_id)
    [] term.column = "status"        -> [t |-> "string", text |-> row.status]
    [] OTHER                         -> JsonExtract(row, term.path)

\* The bound value as the engine compares it: a string is a text, a number an
\* integer; values of different storage classes are never equal and NULL
\* equals nothing.
Holds(term, row) ==
  LET x == ColumnValue(term, row)
  IN  IF term.test = "IS NOT NULL" THEN x # Null
      ELSE /\ x.t = term.param.t
           /\ x.t \in {"string", "number"}
           /\ IF term.column = "status" THEN x.text = Text(term.param.v)
              ELSE x.v = term.param.v

\* AND binds tighter than OR: a row is selected when every predicate of one
\* OR-separated group holds.
Group(terms, k) == Cardinality({j \in 1..k : terms[j].connective = "OR"})
RowSelected(terms, row) ==
  \E n \in 0..Group(terms, Len(terms)) :
    \A k \in 1..Len(terms) : Group(terms, k) = n => Holds(terms[k], row)

\* The orders in which ORDER BY may return the rows `ids`: by id when the
\* clause names e.id, and any order for the other columns (created_at and
\* updated_at have a resolution of one second, so rows written within a second
\* compare equal).
Orderings(ids, orderClause) ==
  {o \in [1..Cardinality(ids) -> ids] :
     /\ \A i, j \in 1..Cardinality(ids) : i # j => o[i] # o[j]
     /\ orderClause = "ORDER BY e.id ASC" =>
          \A i, j \in 1..Cardinality(ids) : i < j => o[i] < o[j]
     /\ orderClause = "ORDER BY e.id DESC" =>
          \A i, j \in 1..Cardinality(ids) : i < j => o[i] > o[j]}

\* getEntries(collection, query): query.filters holds the `filter.` keys of the
\* query string with the prefix sliced off.  `ordered` is the order the engine
\* returned the selected rows in, once prepare() has read the statement.
Selected(terms) == {id \in DOMAIN entries : RowSelected(terms, entries[id])}
getEntries(collection, query, ordered) ==
  LET built == buildQuery([status |-> query.status, filters |-> query.filters,
                           sort |-> query.sort, page |-> query.page,
                           perPage |-> query.per_page])
      total == Len(ordered)
      rows == SubSeq(ordered, built.offset + 1, Min(total, built.offset + built.limit))
  IN  Return([data |-> [k \in 1..Len(rows) |-> entries[rows[k]]],
              pagination |-> [page |-> built.currentPage,
                              per_page |-> built.limit,
                              total |-> total,
                              total_pages |-> (total + built.limit - 1) \div built.limit]])

\* validateEntryData on a stored field list: `for (const field of fields)`
\* throws a TypeError when the stored value is not a list.
ValidateAgainst(collection, data) ==
  IF collection.fields.t = "array"
  THEN validateEntryData(collection.fields.v, data)
  ELSE Throw(TypeError)

\* status === 'published' ? 'published' : 'draft'
EntryStatusIfTruthy(status) == IF Truthy(status) THEN "published" ELSE "draft"
EntryStatus(status) == IF status = Str(<<"published">>) THEN "published" ELSE "draft"

\* INSERT INTO entries (collection_id, data, status), once validateEntryData
\* has ended in cleanedData: the failure thrown, or the row inserted.
InsertEntry(collection, cleanedData, entryStatus) ==
  IF cleanedData.kind = "throw" THEN cleanedData
  ELSE IF foreign_keys /\ collection.id \notin DOMAIN collections
  THEN Throw(SqliteError)
  ELSE Return([id |-> seq.entries + 1,
               collection_id |-> collection.id,
               data |-> JsonObject(cleanedData.value),
               status |-> entryStatus])

\* createEntry up to its INSERT: the failure it throws, or the row it inserts.
createEntry(collection, body) ==
  InsertEntry(collection,
              ValidateAgainst(collection, IF Truthy(body.data) THEN body.data.v ELSE << >>),
              EntryStatus(body.status))

\* UPDATE entries SET data = ?, status = ?, once validateEntryData has ended in
\* updatedData: the failure thrown, or the row written.
UpdateEntryRowRehomed(collection, id, updatedData, updatedStatus) ==
  IF updatedData.kind = "throw" THEN updatedData
  ELSE Return([id |-> id,
               collection_id |-> seq.collections,
               data |-> JsonObject(updatedData.value),
               status |-> updatedStatus])
UpdateEntryRow(collection, id, updatedData, updatedStatus) ==
  IF updatedData.kind = "throw" THEN updatedData
  ELSE Return([id |-> id,
               collection_id |-> collection.id,
               data |-> JsonObject(updatedData.value),
               status |-> updatedStatus])

\* updateEntry up to its UPDATE: the failure it throws, or the row it writes.
updateEntryOverwriting(collection, id, body) ==
  LET found == getEntryById(collection, id)
  IN  IF found.kind = "throw" THEN found
      ELSE UpdateEntryRow(collection, id,
                          IF body.data # Undefined
                          THEN ValidateAgainst(collection, body.data.v)
                          ELSE Return(found.value.data),
                          EntryStatus(body.status))
updateEntry(collection, id, body) ==
  LET found == getEntryById(collection, id)
      existing == found.value
  IN  IF found.kind = "throw" THEN found
      ELSE UpdateEntryRow(collection, id,
                          IF body.data # Undefined
                          THEN ValidateAgainst(collection, body.data.v)
                          ELSE Return(existing.data),
                          IF body.status # Undefined
                          THEN EntryStatus(body.status)
                          ELSE existing.status)

\* The rows an UPDATE or DELETE ... WHERE id = ? AND collection_id = ? touches.
Matches(id, collection) ==
  id \in DOMAIN entries /\ entries[id].collection_id = collection.id

(***************************************************************************)
(* Requests                                                                *)
(***************************************************************************)
\* Rows inserted over a run, both tables together.
MaxInserts == 3

nBlog == <<"B","l","o","g">>
nMyNews == <<"M","y"," ","N","e","w","s">>
nBlogBang == <<"B","l","o","g","!">>

fTitle ==
  Field(Str(sA), TypeName("string"), Bool(TRUE), Undefined, Num(2), Undefined, Undefined,
        Undefined, Undefined)
fFlag ==
  Field(Str(sA), TypeName("boolean"), Undefined, Undefined, Undefined, Undefined, Undefined,
        Undefined, Undefined)
fCount ==
  Field(Str(sB), TypeName("number"), Undefined, Num(5), Undefined, Undefined, Undefined,
        Undefined, Undefined)

\* What a request body does not carry is Undefined.
CollectionBody(name, description, fields) ==
  [name |-> name, description |-> description, fields |-> fields]
EntryBody(entryData, status) == [data |-> entryData, status |-> status]

\* Bodies of POST and PUT /api/admin/collections: two collections with their
\* field lists, and a change of field list alone.
CollectionBodies ==
  { CollectionBody(Str(nBlog), Undefined, Arr(<<fTitle>>)),
    CollectionBody(Str(nMyNews), Undefined, Arr(<<fFlag, fCount>>)),
    CollectionBody(Undefined, Undefined, Arr(<<fFlag, fCount>>)) }

\* Bodies of POST and PUT /api/content/:slug: data with a key no field list
\* has, data over both field names, and a status alone.
EntryBodies ==
  { EntryBody(Obj([k \in {sA, sZ} |-> Str(sHi)]), Undefined),
    EntryBody(Obj([k \in {sA, sB} |-> Str(s5)]), Str(<<"published">>)),
    EntryBody(Undefined, Str(<<"published">>)) }

SlugInputs == {slugify(nBlog), slugify(nMyNews)}
\* The :id of a request: a row's id, a deleted row's, or the next one.
CollectionIds == 1..(seq.collections + 1)
EntryIds == 1..(seq.entries + 1)
Inserts == seq.collections + seq.entries

\* errorHandler: err.statusCode || 500
StatusOf(err) == IF "statusCode" \in DOMAIN err THEN err.statusCode ELSE 500

\* fields && fields.length > 0
NonEmpty(x) ==
  /\ Truthy(x)
  /\ x.t \in {"array", "string"}
  /\ Len(x.v) > 0

data == <<collections, entries, seq, foreign_keys>>

\* The request ends in the error handler: nothing was written.
Fail(request, err) ==
  /\ response' = [op |-> request, status |-> StatusOf(err), error |-> err.class,
                   message |-> err.message]
  /\ UNCHANGED <<call, db, data>>

Done(request, status) ==
  response' = [op |-> request, status |-> status, error |-> "none", message |-> ""]

(***************************************************************************)
(* middleware/errorHandler.js                                              *)
(***************************************************************************)
\* errorHandler(err, req, res, next) under process.env.NODE_ENV: the status
\* and the JSON body of the response, and whether the stack was logged.
errorHandler(err, NODE_ENV) ==
  LET message == IF err.message # "" THEN err.message ELSE "Internal server error"
  IN  [status |-> StatusOf(err),
       body |-> IF "details" \in DOMAIN err
                THEN [error |-> [message |-> message, details |-> err.details]]
                ELSE [error |-> [message |-> message]],
       logged |-> NODE_ENV # "production" /\ StatusOf(err) = 500]

\* Errors that reach the handler: the two classified kinds, with and without
\* details, and failures of the engine and of the runtime.
ErrorMessages == {"Collection \"blog\" not found", "Validation failed", ""}
ErrorInputs ==
  { NotFoundError(m) : m \in ErrorMessages \cup {"Resource not found"} }
  \cup { ValidationError(m, d) :
           m \in ErrorMessages,
           d \in { << >>, <<[field |-> "a", message |-> "a is required"]>> } }
  \cup { [class |-> "Error", message |-> m] : m \in ErrorMessages }
  \cup { SqliteError, TypeError }
EnvInputs == {"production", "development", "test", ""}

InitErrors ==
  /\ call \in { [fn |-> "errorHandler", err |-> e, NODE_ENV |-> env, result |-> Pending] :
                  e \in ErrorInputs, env \in EnvInputs }
  /\ StoreClosed

CallErrorHandler ==
  /\ call.fn = "errorHandler"
  /\ call.result = Pending
  /\ call' = [call EXCEPT !.result = Return(errorHandler(call.err, call.NODE_ENV))]
  /\ UNCHANGED store

NextErrors == CallErrorHandler

SpecErrors == InitErrors /\ [][NextErrors]_vars

(***************************************************************************)
(* index.js, routes/admin.js, routes/content.js                            *)
(***************************************************************************)
Init ==
  /\ call = NoCall
  /\ StoreClosed

\* initDatabase(): open the handle, PRAGMA foreign_keys = ON through exec (which
\* DbWrapper follows by _save), CREATE TABLE IF NOT EXISTS; then app.listen.
InitDatabase ==
  /\ db = Undefined
  /\ \E handle \in {DatabaseSync, DbWrapper} :
       /\ db' = handle
       /\ foreign_keys' = AfterWrite(handle, TRUE)
  /\ UNCHANGED <<call, collections, entries, seq, response>>

\* POST /api/admin/collections
PostCollection(body) ==
  LET request == "POST collection"
      checked == IF NonEmpty(body.fields)
                 THEN validateFieldDefinitions(body.fields)
                 ELSE Return(Undefined)
      made == createCollection(body)
  IN  /\ db # Undefined
      /\ IF checked.kind = "throw" THEN Fail(request, checked.error)
         ELSE IF made.kind = "throw" THEN Fail(request, made.error)
         ELSE /\ Inserts < MaxInserts
              /\ collections' = Put(collections, made.value.id, made.value)
              /\ seq' = [seq EXCEPT !.collections = @ + 1]
              /\ foreign_keys' = AfterWrite(db, foreign_keys)
              /\ Done(request, 201)
              /\ UNCHANGED <<call, db, entries>>

\* PUT /api/admin/collections/:id
PutCollection(id, body) ==
  LET request == "PUT collection"
      checked == IF Truthy(body.fields)
                 THEN validateFieldDefinitions(body.fields)
                 ELSE Return(Undefined)
      updated == updateCollection(id, body)
  IN  /\ db # Undefined
      /\ IF checked.kind = "throw" THEN Fail(request, checked.error)
         ELSE IF updated.kind = "throw" THEN Fail(request, updated.error)
         ELSE /\ collections' = [collections EXCEPT ![id] = updated.value]
              /\ foreign_keys' = AfterWrite(db, foreign_keys)
              /\ Done(request, 200)
              /\ UNCHANGED <<call, db, entries, seq>>

\* DELETE /api/admin/collections/:id
DeleteCollection(id) ==
  LET request == "DELETE collection"
      found == getCollectionById(id)
  IN  /\ db # Undefined
      /\ IF found.kind = "throw" THEN Fail(request, found.error)
         ELSE /\ collections' = [c \in (DOMAIN collections) \ {id} |-> collections[c]]
              /\ entries' = EntriesAfterCollectionDelete(id)
              /\ foreign_keys' = AfterWrite(db, foreign_keys)
              /\ Done(request, 204)
              /\ UNCHANGED <<call, db, seq>>

\* GET /api/content/:slug/:id
GetEntry(slug, id) ==
  LET request == "GET entry"
      resolved == getCollectionBySlug(slug)
  IN  /\ db # Undefined
      /\ IF resolved.kind = "throw" THEN Fail(request, resolved.error)
         ELSE LET entry == getEntryById(resolved.value, id)
              IN  IF entry.kind = "throw" THEN Fail(request, entry.error)
                  ELSE /\ Done(request, 200)
                       /\ UNCHANGED <<call, db, data>>

\* GET /api/content/:slug
GetEntries(slug, query) ==
  LET request == "GET entries"
      resolved == getCollectionBySlug(slug)
  IN  /\ db # Undefined
      /\ IF resolved.kind = "throw" THEN Fail(request, resolved.error)
         ELSE \E terms \in {WhereTerms(resolved.value, query)} :
                IF terms.kind = "throw" THEN Fail(request, terms.error)
                ELSE \E ordered \in Orderings(Selected(terms.value), OrderClause(query.sort)) :
                       /\ call' = [fn |-> "getEntries", collection |-> resolved.value,
                                   query |-> query,
                                   result |-> getEntries(resolved.value, query, ordered)]
                       /\ Done(request, 200)
                       /\ UNCHANGED <<db, data>>

\* POST /api/content/:slug
PostEntry(slug, body) ==
  LET request == "POST entry"
      resolved == getCollectionBySlug(slug)
  IN  /\ db # Undefined
      /\ IF resolved.kind = "throw" THEN Fail(request, resolved.error)
         ELSE \E made \in {createEntry(resolved.value, body)} :
                  IF made.kind = "throw" THEN Fail(request, made.error)
                  ELSE /\ Inserts < MaxInserts
                       /\ entries' = Put(entries, made.value.id, made.value)
                       /\ seq' = [seq EXCEPT !.entries = @ + 1]
                       /\ foreign_keys' = AfterWrite(db, foreign_keys)
                       /\ Done(request, 201)
                       /\ UNCHANGED <<call, db, collections>>

\* PUT /api/content/:slug/:id
PutEntry(slug, id, body) ==
  LET request == "PUT entry"
      resolved == getCollectionBySlug(slug)
  IN  /\ db # Undefined
      /\ IF resolved.kind = "throw" THEN Fail(request, resolved.error)
         ELSE \E updated \in {updateEntry(resolved.value, id, body)} :
                  IF updated.kind = "throw" THEN Fail(request, updated.error)
                  ELSE /\ entries' = IF Matches(id, resolved.value)
                                     THEN [entries EXCEPT ![id] = updated.value]
                                     ELSE entries
                       /\ foreign_keys' = AfterWrite(db, foreign_keys)
                       /\ Done(request, 200)
                       /\ UNCHANGED <<call, db, collections, seq>>

\* DELETE /api/content/:slug/:id
DeleteEntry(slug, id) ==
  LET request == "DELETE entry"
      resolved == getCollectionBySlug(slug)
  IN  /\ db # Undefined
      /\ IF resolved.kind = "throw" THEN Fail(request, resolved.error)
         ELSE LET entry == getEntryById(resolved.value, id)
              IN  IF entry.kind = "throw" THEN Fail(request, entry.error)
                  ELSE /\ entries' = IF Matches(id, resolved.value)
                                     THEN [e \in (DOMAIN entries) \ {id} |-> entries[e]]
                                     ELSE entries
                       /\ foreign_keys' = AfterWrite(db, foreign_keys)
                       /\ Done(request, 204)
                       /\ UNCHANGED <<call, db, collections, seq>>

Next ==
  \/ InitDatabase
  \/ \E body \in CollectionBodies : PostCollection(body)
  \/ \E id \in CollectionIds, body \in CollectionBodies : PutCollection(id, body)
  \/ \E id \in CollectionIds : DeleteCollection(id)
  \/ \E slug \in SlugInputs, id \in EntryIds : GetEntry(slug, id)
  \/ \E slug \in SlugInputs, body \in EntryBodies : PostEntry(slug, body)
  \/ \E slug \in SlugInputs, id \in EntryIds, body \in EntryBodies : PutEntry(slug, id, body)
  \/ \E slug \in SlugInputs, id \in EntryIds : DeleteEntry(slug, id)

Spec == Init /\ [][Next]_vars

(***************************************************************************)
(* The admin routes on their own, with bodies of every shape the routes    *)
(* let through: a blank name, a name whose slug another name has, a field  *)
(* list that is an object or null, a field list alone.                     *)
(***************************************************************************)
MaxCollections == 2

AdminBodies ==
  { CollectionBody(Str(nBlog), Undefined, Arr(<<fTitle>>)),
    CollectionBody(Str(nMyNews), Undefined, Undefined),
    CollectionBody(Str(nBlogBang), Undefined, Obj(<< >>)),
    CollectionBody(Str(<<" ">>), Undefined, Undefined),
    CollectionBody(Undefined, Undefined, Arr(<<fFlag, fCount>>)),
    CollectionBody(Undefined, Undefined, Arr(<<fFlag, fFlag>>)),
    CollectionBody(Undefined, Undefined, Null) }

NextAdmin ==
  \/ InitDatabase
  \/ \E body \in AdminBodies :
       seq.collections < MaxCollections /\ PostCollection(body)
  \/ \E id \in CollectionIds, body \in AdminBodies : PutCollection(id, body)

SpecAdmin == Init /\ [][NextAdmin]_vars

(***************************************************************************)
(* Names and slugs: collections created and renamed with a plain name, a   *)
(* name with spaces around it, a name of punctuation, and a blank name.    *)
(***************************************************************************)
nSpacedNews == <<" ">> \o nMyNews \o <<" ">>
nBang == <<"!">>

NameBodies ==
  { CollectionBody(Str(n), Undefined, Undefined) : n \in {nBlog, nSpacedNews, nBang, <<" ">>} }

NextNames ==
  \/ InitDatabase
  \/ \E body \in NameBodies :
       seq.collections < MaxCollections /\ PostCollection(body)
  \/ \E id \in CollectionIds, body \in NameBodies : PutCollection(id, body)

SpecNames == Init /\ [][NextNames]_vars

(***************************************************************************)
(* Updates of collections that hold entries: bodies that supply the name   *)
(* with the field list, the name with the description, the description     *)
(* alone and the field list alone, and one entry body.                     *)
(***************************************************************************)
MergeBodies ==
  { CollectionBody(Str(nBlog), Undefined, Arr(<<fTitle>>)),
    CollectionBody(Str(nMyNews), Str(sHi), Undefined),
    CollectionBody(Undefined, Str(<<"n", "e", "w">>), Undefined),
    CollectionBody(Undefined, Undefined, Arr(<<fFlag, fCount>>)) }

MergeEntryBody == EntryBody(Obj([k \in {sA, sZ} |-> Str(sHi)]), Undefined)

NextMerge ==
  \/ InitDatabase
  \/ \E body \in MergeBodies : PostCollection(body)
  \/ \E id \in CollectionIds, body \in MergeBodies : PutCollection(id, body)
  \/ \E slug \in SlugInputs : PostEntry(slug, MergeEntryBody)

SpecMerge == Init /\ [][NextMerge]_vars

(***************************************************************************)
(* The content routes on one collection with a boolean and a number field, *)
(* with a status of every kind a JSON body can carry (absent, the two      *)
(* values, another capitalisation, null, a boolean), with and without      *)
(* data, and with data the validator rejects and data no JSON text holds.  *)
(***************************************************************************)
ContentCollection == CollectionBody(Str(nMyNews), Undefined, Arr(<<fFlag, fCount>>))

EntryStatuses ==
  {Undefined, Str(<<"published">>), Str(<<"draft">>), Str(<<"Published">>), Null, Bool(TRUE)}

ContentBodies ==
  { EntryBody(d, st) : d \in {Undefined, Obj([k \in {sB} |-> Str(s5)])}, st \in EntryStatuses }
  \cup { EntryBody(Obj([k \in {sB} |-> Str(sInfinity)]), Undefined),
         EntryBody(Obj([k \in {sB} |-> Str(sHi)]), Str(<<"published">>)) }

NextContent ==
  \/ InitDatabase
  \/ PostCollection(ContentCollection)
  \/ \E slug \in SlugInputs, body \in ContentBodies : PostEntry(slug, body)
  \/ \E slug \in SlugInputs, id \in EntryIds, body \in ContentBodies : PutEntry(slug, id, body)

SpecContent == Init /\ [][NextContent]_vars

(***************************************************************************)
(* Listings: two collections, entries in both, and GET /api/content/:slug  *)
(* with a status, filters, a sort and a page.                              *)
(***************************************************************************)
ListingCollections ==
  {CollectionBody(Str(nBlog), Undefined, Arr(<<fTitle>>)),
   CollectionBody(Str(nMyNews), Undefined, Arr(<<fFlag, fCount>>))}

ListingBodies ==
  {EntryBody(Obj([k \in {sA} |-> Str(sHi)]), Str(<<"published">>)),
   EntryBody(Obj([k \in {sA} |-> Str(s5)]), Undefined)}

ListingFilters ==
  {Entries(<< >>),
   Entries(<< <<sA, Str(sHi)>> >>),
   Entries(<< <<sB, Str(s5)>> >>),
   Entries(<< <<sA \o <<sQuote>>, Str(sHi)>> >>),
   Entries(<< <<sA \o sBreakout \o sA, Str(sHi)>> >>)}

\* sort, page and per_page of a query string.
ListingPages ==
  {<<Undefined, Undefined, Undefined>>,
   <<Str(<<"-","i","d">>), Undefined, Str(<<"1">>)>>,
   <<Undefined, Str(<<"2">>), Str(<<"1">>)>>}

ListingQueries ==
  {[status |-> st, filters |-> f, sort |-> pg[1], page |-> pg[2], per_page |-> pg[3]] :
     st \in {Undefined, Str(<<"published">>)}, f \in ListingFilters, pg \in ListingPages}

NextListing ==
  \/ InitDatabase
  \/ \E body \in ListingCollections : PostCollection(body)
  \/ \E slug \in SlugInputs, body \in ListingBodies : PostEntry(slug, body)
  \/ \E slug \in SlugInputs, query \in ListingQueries : GetEntries(slug, query)

SpecListing == Init /\ [][NextListing]_vars

(***************************************************************************)
(* Two processes on one database file.  createCollection runs to its end   *)
(* within a process, but its SELECT and its INSERT are two statements      *)
(* outside any transaction: another connection on the same file (a second  *)
(* server instance, seed.js) can write between them.  Each process has one *)
(* POST /api/admin/collections in flight.                                  *)
(***************************************************************************)
NumProcesses == 2
Processes == 1..NumProcesses

RaceBodies ==
  { CollectionBody(Str(n), d, Undefined) :
      n \in {nBlog, nBlogBang, nMyNews, <<" ">>}, d \in {Undefined, Str(sHi)} }

Request(body) == [pc |-> "start", body |-> body, status |-> 0, error |-> "none"]

InitRace ==
  /\ call \in { [fn |-> "createCollection", request |-> r] :
                  r \in [Processes -> {Request(b) : b \in RaceBodies}] }
  /\ db = DatabaseSync
  /\ foreign_keys = TRUE
  /\ collections = << >>
  /\ entries = << >>
  /\ seq = [collections |-> 0, entries |-> 0]
  /\ response = [op |-> "none", status |-> 0, error |-> "none", message |-> ""]

\* The request of process p ends: with err in errorHandler, or with 201.
Answered(p, status, error) ==
  call' = [call EXCEPT !.request[p] = [@ EXCEPT !.pc = "done", !.status = status,
                                                 !.error = error]]

\* createCollection of process p up to its SELECT.
SelectSlug(p) ==
  LET body == call.request[p].body
  IN  /\ call.fn = "createCollection"
      /\ call.request[p].pc = "start"
      /\ IF NoName(body)
         THEN Answered(p, 400, "ValidationError")
         ELSE IF SlugInUse(slugify(body.name.v), 0)
         THEN Answered(p, StatusOf(SlugConflict(slugify(body.name.v))),
                       SlugConflict(slugify(body.name.v)).class)
         ELSE call' = [call EXCEPT !.request[p].pc = "insert"]
      /\ UNCHANGED store

\* createCollection of process p from its INSERT on.
RunInsert(p) ==
  /\ call.fn = "createCollection"
  /\ call.request[p].pc = "insert"
  /\ \E made \in {InsertCollection(call.request[p].body)} :
       IF made.kind = "throw"
       THEN /\ Answered(p, StatusOf(made.error), made.error.class)
            /\ UNCHANGED store
       ELSE /\ collections' = Put(collections, made.value.id, made.value)
            /\ seq' = [seq EXCEPT !.collections = @ + 1]
            /\ Answered(p, 201, "none")
            /\ UNCHANGED <<db, foreign_keys, entries, response>>

NextRace == \E p \in Processes : SelectSlug(p) \/ RunInsert(p)

SpecRace == InitRace /\ [][NextRace]_vars

(***************************************************************************)
(* Two processes on one database file, each running updateEntry on entry 1 *)
(* of the collection Blog: getEntryById, then the UPDATE, as two steps.    *)
(***************************************************************************)
UpdateBodies ==
  {EntryBody(Obj([k \in {sA} |-> Str(s5)]), Undefined),
   EntryBody(Obj([k \in {sA} |-> Num(5)]), Undefined),
   EntryBody(Undefined, Str(<<"published">>)),
   EntryBody(Undefined, Str(<<"draft">>)),
   EntryBody(Obj([k \in {sA} |-> Str(s5)]), Str(<<"published">>))}

BlogRow ==
  [id |-> 1, name |-> nBlog, slug |-> slugify(nBlog), description |-> Str(<< >>),
   fields |-> Arr(<<fTitle>>)]

UpdateRequest(body) ==
  [pc |-> "start", body |-> body, existing |-> Undefined, status |-> 0, error |-> "none"]

\* The store after POST /api/admin/collections {name: "Blog", fields: [a]} and
\* POST /api/content/blog {data: {a: "hi"}}.
InitUpdateRace ==
  /\ call \in { [fn |-> "updateEntry", request |-> r] :
                  r \in [Processes -> {UpdateRequest(b) : b \in UpdateBodies}] }
  /\ db = DatabaseSync
  /\ foreign_keys = TRUE
  /\ collections = Put(<< >>, 1, BlogRow)
  /\ entries = Put(<< >>, 1, [id |-> 1, collection_id |-> 1,
                              data |-> [k \in {sA} |-> Str(sHi)], status |-> "draft"])
  /\ seq = [collections |-> 1, entries |-> 1]
  /\ response = [op |-> "none", status |-> 0, error |-> "none", message |-> ""]

\* updateEntry of process p up to `const existing = getEntryById(collection, id)`.
ReadExisting(p) ==
  /\ call.fn = "updateEntry"
  /\ call.request[p].pc = "start"
  /\ \E found \in {getEntryById(BlogRow, 1)} :
       IF found.kind = "throw"
       THEN Answered(p, StatusOf(found.error), found.error.class)
       ELSE call' = [call EXCEPT !.request[p].pc = "update",
                                 !.request[p].existing = found.value]
  /\ UNCHANGED store

\* updateEntry of process p from validateEntryData on: the UPDATE writes the
\* data and the status computed from the body and the row read before.
RunUpdate(p) ==
  LET body == call.request[p].body
      existing == call.request[p].existing
  IN  /\ call.fn = "updateEntry"
      /\ call.request[p].pc = "update"
      /\ \E updated \in {UpdateEntryRow(BlogRow, 1,
                                        IF body.data # Undefined
                                        THEN ValidateAgainst(BlogRow, body.data.v)
                                        ELSE Return(existing.data),
                                        IF body.status # Undefined
                                        THEN EntryStatus(body.status)
                                        ELSE existing.status)} :
           IF updated.kind = "throw"
           THEN /\ Answered(p, StatusOf(updated.error), updated.error.class)
                /\ UNCHANGED store
           ELSE /\ entries' = IF Matches(1, BlogRow)
                              THEN [entries EXCEPT ![1] = updated.value]
                              ELSE entries
                /\ Answered(p, 200, "none")
                /\ UNCHANGED <<db, foreign_keys, collections, seq, response>>

NextUpdateRace == \E p \in Processes : ReadExisting(p) \/ RunUpdate(p)

SpecUpdateRace == InitUpdateRace /\ [][NextUpdateRace]_vars

(***************************************************************************)
(* config/database.js: initDatabase and getDb, step by step.  The          *)
(* DatabaseSync variant of initDatabase is synchronous: a call runs to its *)
(* end before any other code.  The DbWrapper variant is async: a call runs *)
(* up to `await initPromise`, initEngine runs from its `await initSqlJs()` *)
(* to its end when the engine has loaded, and each waiting call goes on    *)
(* to the CREATE TABLE statements once initPromise is fulfilled.            *)
(***************************************************************************)
MaxInitCalls == 8

NotInitialized ==
  [class |-> "Error", message |-> "Database not initialized. Call initDatabase() first."]

\* getDb()
getDb == IF db = Undefined THEN Throw(NotInitialized) ELSE Return(db)

\* call.handles counts the handles constructed, call.completed tells whether
\* some initDatabase call has returned (or its promise has been fulfilled),
\* and call.got is what the last getDb() gave, with call.early telling whether
\* it was called before any initDatabase call had completed.
InitStartup ==
  /\ call \in {[fn |-> "initDatabase", variant |-> v, pc |-> [p \in Processes |-> "idle"],
                initPromise |-> "unset", calls |-> 0, handles |-> 0,
                completed |-> FALSE, got |-> Pending, early |-> FALSE] :
                 v \in {"DatabaseSync", "DbWrapper"}}
  /\ StoreClosed

\* initDatabase() of the DatabaseSync variant: `if (db) return`, or open the
\* handle, PRAGMA foreign_keys = ON, CREATE TABLE IF NOT EXISTS.
InitDatabaseSync(p) ==
  /\ call.fn = "initDatabase" /\ call.variant = "DatabaseSync"
  /\ call.calls < MaxInitCalls
  /\ IF db # Undefined
     THEN /\ call' = [call EXCEPT !.calls = @ + 1]
          /\ UNCHANGED store
     ELSE /\ db' = DatabaseSync
          /\ foreign_keys' = AfterWrite(DatabaseSync, TRUE)
          /\ call' = [call EXCEPT !.calls = @ + 1, !.handles = @ + 1, !.completed = TRUE]
          /\ UNCHANGED <<collections, entries, seq, response>>

\* initDatabase() of the DbWrapper variant up to `await initPromise`: the
\* first call starts initEngine, which runs up to `await initSqlJs()`.
InitDatabaseAsync(p) ==
  /\ call.fn = "initDatabase" /\ call.variant = "DbWrapper"
  /\ call.pc[p] = "idle"
  /\ call.calls < MaxInitCalls
  /\ call' = [call EXCEPT !.calls = @ + 1, !.pc[p] = "await initPromise",
                          !.initPromise = IF @ = "unset" THEN "pending" ELSE @]
  /\ UNCHANGED store

\* initEngine from the loaded engine on: db = new DbWrapper(sqlDb, dbPath),
\* PRAGMA foreign_keys = ON through exec; its promise is fulfilled.
InitEngine ==
  /\ call.fn = "initDatabase"
  /\ call.initPromise = "pending"
  /\ db' = DbWrapper
  /\ foreign_keys' = AfterWrite(DbWrapper, TRUE)
  /\ call' = [call EXCEPT !.initPromise = "fulfilled", !.handles = @ + 1]
  /\ UNCHANGED <<collections, entries, seq, response>>

\* initDatabase() of the DbWrapper variant after `await initPromise`: the
\* CREATE TABLE IF NOT EXISTS statements through exec, then the call is over.
CreateTables(p) ==
  /\ call.fn = "initDatabase"
  /\ call.pc[p] = "await initPromise"
  /\ call.initPromise = "fulfilled"
  /\ foreign_keys' = AfterWrite(db, foreign_keys)
  /\ call' = [call EXCEPT !.pc[p] = "idle", !.completed = TRUE]
  /\ UNCHANGED <<db, collections, entries, seq, response>>

\* getDb() called by any code that runs between two of the steps above.
CallGetDb ==
  /\ call.fn = "initDatabase"
  /\ call' = [call EXCEPT !.got = getDb, !.early = ~call.completed]
  /\ UNCHANGED store

NextStartup ==
  \/ \E p \in Processes : InitDatabaseSync(p)
  \/ \E p \in Processes : InitDatabaseAsync(p)
  \/ InitEngine
  \/ \E p \in Processes : CreateTables(p)
  \/ CallGetDb

SpecStartup == InitStartup /\ [][NextStartup]_vars

(***************************************************************************)
(* Properties                                                              *)
(***************************************************************************)
ValidatedEntryData == call.fn = "validateEntryData" /\ call.result # Pending
ValidatedDefinitions ==
  call.fn = "validateFieldDefinitions" /\ call.result # Pending /\ call.fields.t = "array"

FailedValidation(result) ==
  result.kind = "throw" /\ result.error.class = "ValidationError"

\* C1: validating the cleaned object a successful validateEntryData returned,
\* against the same field list, succeeds and returns an equal object.
C1_Idempotent ==
  (call.fn = "validateEntryData" /\ call.result.kind = "return" /\ call.again # Pending)
    => call.again = call.result

FieldNames(collection) ==
  {collection.fields.v[i].name.v : i \in 1..Len(collection.fields.v)}

\* C3: every key of a successful validateEntryData(F, D) is the name of a field
\* of F, so a key of D that F does not name is not in the result; the data
\* that a successful createEntry or updateEntry stores has only such keys.
C3_StrictProjection ==
  [][\A slug \in SlugInputs, body \in EntryBodies :
       LET C == getCollectionBySlug(slug).value
           D == IF Truthy(body.data) THEN body.data.v ELSE << >>
           cleaned == validateEntryData(C.fields.v, D)
           unknown == (DOMAIN D) \ FieldNames(C)
       IN  /\ (response'.op = "POST entry" /\ response'.status = 201 /\ PostEntry(slug, body))
              => /\ cleaned.kind = "return"
                 /\ DOMAIN cleaned.value \subseteq FieldNames(C)
                 /\ DOMAIN entries'[seq.entries + 1].data \subseteq FieldNames(C)
                 /\ \A k \in unknown : k \notin DOMAIN entries'[seq.entries + 1].data
           /\ \A id \in EntryIds :
                (/\ response'.op = "PUT entry" /\ response'.status = 200
                 /\ body.data # Undefined
                 /\ PutEntry(slug, id, body))
                => /\ cleaned.kind = "return"
                   /\ DOMAIN cleaned.value \subseteq FieldNames(C)
                   /\ DOMAIN entries'[id].data \subseteq FieldNames(C)
                   /\ \A k \in unknown : k \notin DOMAIN entries'[id].data]_vars

\* The last request created an entry from the body {a: "hi", z: "hi"}, the
\* only one that carries "hi", and the stored data has the key a alone.
C3_Witness ==
  /\ response.op = "POST entry" /\ response.status = 201
  /\ seq.entries \in DOMAIN entries
  /\ DOMAIN entries[seq.entries].data = {sA}
  /\ entries[seq.entries].data[sA] = Str(sHi)

\* The elements of a field list that carry the name n.
Occurrences(fields, n) == {i \in 1..Len(fields) : fields[i].name = Str(n)}

\* The details of a failure that report n as a duplicate name.
DuplicateDetails(result, n) ==
  {k \in 1..Len(result.error.details) :
     result.error.details[k].message = "Duplicate field name \"" \o Text(n) \o "\""}

NonBlankNames == {sA, sB}

\* C4 as stated: a field list in which a non-blank name occurs more than once
\* makes validateFieldDefinitions fail with exactly one detail for that name.
C4_ExactlyOneDetail ==
  ValidatedDefinitions =>
    \A n \in NonBlankNames :
      Cardinality(Occurrences(call.fields.v, n)) > 1
      => /\ FailedValidation(call.result)
         /\ Cardinality(DuplicateDetails(call.result, n)) = 1

\* C4 as amended: a non-blank name that occurs k > 1 times makes
\* validateFieldDefinitions fail with k - 1 details for that name, one at each
\* occurrence after the first; exactly one when the name occurs twice.
C4_OneDetailPerLaterOccurrence ==
  ValidatedDefinitions =>
    \A n \in NonBlankNames :
      LET occ == Occurrences(call.fields.v, n)
          first == CHOOSE i \in occ : \A j \in occ : i <= j
      IN  Cardinality(occ) > 1
          => /\ FailedValidation(call.result)
             /\ Cardinality(DuplicateDetails(call.result, n)) = Cardinality(occ) - 1
             /\ \A i \in occ \ {first} :
                  \E k \in DuplicateDetails(call.result, n) :
                    call.result.error.details[k].field
                      = "fields[" \o Text(IntToString(i - 1)) \o "].name"

\* A name occurs three times and the call has failed.
C4_Witness ==
  /\ ValidatedDefinitions
  /\ Cardinality(Occurrences(call.fields.v, sA)) = 3
  /\ call.result.kind = "throw"

\* C5: a select field whose options are missing, not a list or an empty list
\* makes validateFieldDefinitions fail with a detail on fields[i].options, i
\* the field's index.
C5_SelectNeedsOptions ==
  ValidatedDefinitions =>
    \A i \in 1..Len(call.fields.v) :
      (/\ call.fields.v[i].type = TypeName("select")
       /\ \/ call.fields.v[i].options \in {Undefined, Null}
          \/ call.fields.v[i].options.t # "array"
          \/ call.fields.v[i].options = Arr(<< >>))
      => /\ FailedValidation(call.result)
         /\ \E k \in 1..Len(call.result.error.details) :
              call.result.error.details[k].field
                = "fields[" \o Text(IntToString(i - 1)) \o "].options"

\* The second element is a well-named select with an empty options list, the
\* first element is in order, and the call has failed.
C5_Witness ==
  /\ ValidatedDefinitions
  /\ Len(call.fields.v) = 2
  /\ call.fields.v[1].name = Str(sA) /\ call.fields.v[1].type = TypeName("number")
  /\ call.fields.v[2].name = Str(sB) /\ call.fields.v[2].type = TypeName("select")
  /\ call.fields.v[2].options = Arr(<< >>)
  /\ call.result.kind = "throw"

BuiltQuery == call.fn = "buildQuery" /\ call.result # Pending

\* The integer a page or perPage input spells, as a query string or a number.
SpelledIntegers == -2..MaxPerPage
Spells(x, n) == x = Str(IntToString(n)) \/ x = Num(n)

\* C6: for an integer perPage the limit is perPage within 1..100, 100 above
\* it and 1 below it (0 included), and offset = (page-1)*limit for page >= 1.
C6_ClampLaw ==
  BuiltQuery =>
    /\ \A n \in SpelledIntegers :
         Spells(call.q.perPage, n)
         => call.result.value.limit = (IF n > 100 THEN 100 ELSE IF n < 1 THEN 1 ELSE n)
    /\ \A p \in 1..MaxPage :
         Spells(call.q.page, p)
         => call.result.value.offset = (p - 1) * call.result.value.limit

\* The order fragments the whitelist allows.
WhitelistedOrders ==
  { "ORDER BY e." \o col \o " " \o dir :
      col \in {"created_at", "updated_at", "id", "status"}, dir \in {"ASC", "DESC"} }

\* C7: orderClause is ORDER BY e.<col> ASC|DESC for a sort naming a whitelisted
\* column, DESC exactly when the sort starts with '-'; for an absent sort or any
\* other column it is ORDER BY e.created_at DESC; nothing else ever appears.
C7_SortWhitelist ==
  BuiltQuery =>
    LET sort == call.q.sort
        desc == sort.t = "string" /\ sort.v # << >> /\ Head(sort.v) = "-"
        col == IF sort.t # "string" THEN << >> ELSE IF desc THEN Tail(sort.v) ELSE sort.v
        listed == Text(col) \in {"created_at", "updated_at", "id", "status"}
    IN  /\ call.result.value.orderClause \in WhitelistedOrders
        /\ listed => call.result.value.orderClause
                       = "ORDER BY e." \o Text(col) \o " " \o (IF desc THEN "DESC" ELSE "ASC")
        /\ ~listed => call.result.value.orderClause = "ORDER BY e.created_at DESC"

\* A sort that names no whitelisted column and carries SQL has been built.
C7_Witness ==
  /\ BuiltQuery
  /\ call.q.sort = Str(<<"i","d",";","D","R","O","P">>)
  /\ call.result.value.orderClause = "ORDER BY e.created_at DESC"

\* C8: params is the status, when one is given, followed by the filter values
\* in the mapping's iteration order; the i-th ANDed predicate of whereClause is
\* the one the i-th param belongs to; whereClause is empty exactly when neither
\* a status nor a filter is given.  (A status is given when it is a non-empty
\* string: `?status=` gives none.)
C8_ParamOrder ==
  BuiltQuery =>
    LET given == call.q.status.t = "string" /\ call.q.status.v # << >>
        pairs == IF call.q.filters = Undefined THEN << >> ELSE call.q.filters.entries
        values == (IF given THEN <<call.q.status>> ELSE << >>)
                     \o [k \in 1..Len(pairs) |-> pairs[k][2]]
        predicates == (IF given THEN <<"e.status = ?">> ELSE << >>)
                        \o [k \in 1..Len(pairs) |->
                              "json_extract(e.data, '$." \o Text(pairs[k][1]) \o "') = ?"]
    IN  /\ call.result.value.params = values
        /\ call.result.value.whereClause
             = (IF predicates = << >> THEN "" ELSE "WHERE " \o Join(predicates, " AND "))
        /\ (call.result.value.whereClause = "") <=> (~given /\ pairs = << >>)

\* The scenario of the specification: status published, filter category=tech.
C8_Witness ==
  /\ BuiltQuery
  /\ call.q.status = Str(<<"published">>)
  /\ call.q.filters = Entries(<< <<(<<"category">>), Str(<<"tech">>)>> >>)
  /\ call.result.value.params = <<Str(<<"published">>), Str(<<"tech">>)>>
  /\ call.result.value.whereClause
       = "WHERE e.status = ? AND json_extract(e.data, '$.category') = ?"

\* The characters a slug may hold.
IsSlugChar(c) == (\E k \in 1..26 : LowerLetters[k] = c) \/ IsDigit(c) \/ c = "-"
IsAlphanumeric(c) == IsWord(c) /\ c # "_"
NotHyphen(c) == c # "-"

\* C15: the slug of a name holds only a-z, 0-9 and '-', has no two hyphens in
\* a row and none at either end; without its hyphens it is the name's letters
\* and digits, lower-cased, in order; slugify of a slug is that slug; and
\* "Blog Posts!!" gives "blog-posts".
C15_SlugShape ==
  (call.fn = "slugify" /\ call.result # Pending) =>
    LET slug == call.result.value
    IN  /\ \A k \in 1..Len(slug) : IsSlugChar(slug[k])
        /\ \A k \in 1..(Len(slug) - 1) : ~(slug[k] = "-" /\ slug[k + 1] = "-")
        /\ slug # << >> => (Head(slug) # "-" /\ slug[Len(slug)] # "-")
        /\ SelectSeq(slug, NotHyphen) = SelectSeq(ToLowerCase(call.text), IsAlphanumeric)
        /\ slugify(slug) = slug
        /\ call.text = nBlogPosts => Text(slug) = "blog-posts"

\* The scenario of the specification has been derived.
C15_Witness ==
  /\ call.fn = "slugify"
  /\ call.text = nBlogPosts
  /\ call.result = Return(<<"b","l","o","g","-","p","o","s","t","s">>)

\* C9: every stored entry's collection_id is the id of a stored collection; in
\* particular no entry of a deleted collection remains.
C9_EntriesOwned ==
  \A e \in Rows(entries) : e.collection_id \in DOMAIN collections

\* C10: getEntryById, updateEntry and deleteEntry on a collection C and an id
\* that is no entry's, or is the id of an entry of another collection, fail
\* with NotFoundError (404) and leave the collections and the entries as they
\* were.
C10_ScopedNotFound ==
  [][\A slug \in SlugInputs, id \in EntryIds :
       LET resolved == getCollectionBySlug(slug)
       IN  (/\ response'.op \in {"GET entry", "PUT entry", "DELETE entry"}
            /\ resolved.kind = "return"
            /\ ~(id \in DOMAIN entries /\ entries[id].collection_id = resolved.value.id)
            /\ \/ GetEntry(slug, id)
               \/ \E body \in EntryBodies : PutEntry(slug, id, body)
               \/ DeleteEntry(slug, id))
           => /\ response'.error = "NotFoundError"
              /\ response'.status = 404
              /\ entries' = entries
              /\ collections' = collections]_vars

\* Entry 1 is stored under Blog, and the last request, a PUT of entry 1 under
\* My News, ended in 404.
C10_Witness ==
  /\ response.op = "PUT entry" /\ response.status = 404
  /\ response.message = "Entry with id 1 not found in \"My News\""
  /\ 1 \in DOMAIN entries
  /\ \E c \in Rows(collections) : c.name = nMyNews
  /\ \E c \in Rows(collections) : c.name = nBlog /\ entries[1].collection_id = c.id

\* C20: a NotFoundError is answered 404, a ValidationError 400 with its
\* details, any other error 500; and under NODE_ENV = production the body of
\* a 500 carries the generic message, not the error's own.
C20_ClassifiedAndGeneric ==
  (call.fn = "errorHandler" /\ call.result # Pending) =>
    LET err == call.err
        res == call.result.value
    IN  /\ err.class = "NotFoundError" => res.status = 404
        /\ err.class = "ValidationError"
             => (res.status = 400 /\ res.body.error.details = err.details)
        /\ err.class \notin {"NotFoundError", "ValidationError"} => res.status = 500
        /\ (call.NODE_ENV = "production" /\ res.status = 500)
             => /\ res.body.error.message = "Internal server error"
                /\ err.message # "" => res.body.error.message # err.message

\* C14: of two creations with the same slug that both passed the SELECT, one
\* is answered 201 and the other with the 400 conflict (a ValidationError),
\* never with an unclassified failure.
C14_LoserGetsConflict ==
  call.fn = "createCollection" =>
    \A p, q \in Processes :
      (p # q /\ call.request[p].pc = "done" /\ call.request[q].pc = "done"
         /\ call.request[p].status = 201
         /\ ~NoName(call.request[q].body)
         /\ slugify(call.request[p].body.name.v) = slugify(call.request[q].body.name.v))
        => /\ call.request[q].status = 400
           /\ call.request[q].error = "ValidationError"

\* C11: after any admin create or update, the stored fields of every
\* collection is a list whose names are non-blank and unique, whose types are
\* among the seven of VALID_TYPES, and whose select fields have an option.
C11_StoredSchemas ==
  \A c \in Rows(collections) :
    IF c.fields.t # "array" THEN FALSE
    ELSE LET F == c.fields.v
         IN  \A i \in 1..Len(F) :
               /\ ~NameMissing(F[i])
               /\ \A j \in 1..Len(F) : F[j].name = F[i].name => j = i
               /\ Includes(VALID_TYPES, F[i].type)
               /\ F[i].type = TypeName("select") => ~OptionsInvalid(F[i])

\* C12: every stored collection has a non-blank name, and a create or an
\* update of an existing collection that supplies a blank name is answered
\* with a ValidationError and writes nothing.
C12_NamesNonBlank ==
  [][/\ \A c \in Rows(collections') : Trim(c.name) # << >>
     /\ \A body \in AdminBodies :
          (body.name # Undefined /\ NoName(body))
          => /\ (response'.op = "POST collection" /\ PostCollection(body))
                => (response'.error = "ValidationError" /\ UNCHANGED data)
             /\ \A id \in DOMAIN collections :
                  (response'.op = "PUT collection" /\ PutCollection(id, body))
                  => (response'.error = "ValidationError" /\ UNCHANGED data)]_vars

\* Another collection than id has this slug.
SlugOfAnother(slug, id) == \E c \in Rows(collections) : c.slug = slug /\ c.id # id

\* The request was answered with the conflict on slug and wrote nothing.
ConflictAnswered(slug) ==
  /\ response'.status = 400
  /\ response'.error = "ValidationError"
  /\ response'.message = "A collection with slug \"" \o Text(slug) \o "\" already exists"
  /\ UNCHANGED data

\* The slug of each admin body that carries a name.
NamedBodies == {body \in AdminBodies : body.name # Undefined}
SlugOfBody == [body \in NamedBodies |-> slugify(body.name.v)]

\* C13: a create with a name, or an update of an existing collection that
\* supplies a name, whose slug is the slug of another collection is answered
\* with the conflict ValidationError and leaves the tables as they were (the
\* routes check the field list first: a field list they reject is reported
\* instead, also as a ValidationError that writes nothing); and no two stored
\* collections ever share a slug.
C13_SlugConflict ==
  [][/\ \A c1, c2 \in Rows(collections') : c1.slug = c2.slug => c1.id = c2.id
     /\ \A body \in NamedBodies :
          /\ (/\ response'.op = "POST collection"
              /\ ~NoName(body)
              /\ SlugOfAnother(SlugOfBody[body], 0)
              /\ PostCollection(body))
             => IF NonEmpty(body.fields)
                   /\ validateFieldDefinitions(body.fields).kind = "throw"
                THEN response'.error = "ValidationError" /\ UNCHANGED data
                ELSE ConflictAnswered(SlugOfBody[body])
          /\ \A id \in DOMAIN collections :
               (/\ response'.op = "PUT collection"
                /\ SlugOfAnother(SlugOfBody[body], id)
                /\ PutCollection(id, body))
               => IF Truthy(body.fields)
                     /\ validateFieldDefinitions(body.fields).kind = "throw"
                  THEN response'.error = "ValidationError" /\ UNCHANGED data
                  ELSE ConflictAnswered(SlugOfBody[body])]_vars

\* An update was answered with the conflict on "blog" while two collections
\* are stored, one of them under that slug.
C13_Witness ==
  /\ response.op = "PUT collection"
  /\ response.message = "A collection with slug \"blog\" already exists"
  /\ Cardinality(DOMAIN collections) = 2
  /\ \E c \in Rows(collections) : c.slug = slugify(nBlog)

\* C19: a successful update writes, of name, description and fields, the keys
\* the body supplies (the name trimmed, the slug derived from it) and keeps
\* the stored value of every other one, the slug among them; it leaves the
\* id, every other collection and every entry as they were.
C19_PartialMerge ==
  [][\A body \in MergeBodies, id \in DOMAIN collections :
       (response'.op = "PUT collection" /\ response'.status = 200 /\ PutCollection(id, body))
       => LET old == collections[id]
              new == collections'[id]
          IN  /\ new.id = old.id
              /\ IF body.name # Undefined
                 THEN new.name = Trim(body.name.v) /\ new.slug = slugify(body.name.v)
                 ELSE new.name = old.name /\ new.slug = old.slug
              /\ new.description
                   = IF body.description # Undefined THEN body.description ELSE old.description
              /\ new.fields = IF body.fields # Undefined THEN body.fields ELSE old.fields
              /\ DOMAIN collections' = DOMAIN collections
              /\ \A other \in (DOMAIN collections) \ {id} : collections'[other] = collections[other]
              /\ entries' = entries]_vars

\* An update has replaced the field list of a collection whose description
\* an earlier update had set, and the collection still holds an entry stored
\* under the former list: its string under "a" is no boolean.
C19_Witness ==
  /\ response.op = "PUT collection" /\ response.status = 200
  /\ \E e \in Rows(entries) :
       /\ e.collection_id \in DOMAIN collections
       /\ collections[e.collection_id].fields = Arr(<<fFlag, fCount>>)
       /\ collections[e.collection_id].description = Str(<<"n", "e", "w">>)
       /\ collections[e.collection_id].name = nBlog
       /\ e.data[sA] = Str(sHi)

\* C18: a successful updateEntry that supplies no data leaves the stored data
\* as it was, whether or not the collection's field list still accepts it;
\* one that supplies no status leaves the stored status as it was; either way
\* the entry keeps its id and collection_id, and every other entry and every
\* collection is unchanged.
C18_PartialUpdate ==
  [][\A slug \in SlugInputs, body \in EntryBodies, id \in DOMAIN entries :
       (response'.op = "PUT entry" /\ response'.status = 200 /\ PutEntry(slug, id, body))
       => /\ body.data = Undefined => entries'[id].data = entries[id].data
          /\ body.status = Undefined => entries'[id].status = entries[id].status
          /\ entries'[id].id = id
          /\ entries'[id].collection_id = entries[id].collection_id
          /\ DOMAIN entries' = DOMAIN entries
          /\ \A other \in (DOMAIN entries) \ {id} : entries'[other] = entries[other]
          /\ collections' = collections]_vars

\* An update with a status alone has published an entry whose stored data is
\* not what the collection's present field list would make of it: "a" is now
\* a boolean field and the entry holds a string under it.
C18_Witness ==
  /\ response.op = "PUT entry" /\ response.status = 200
  /\ \E e \in Rows(entries) :
       /\ e.status = "published"
       /\ e.data = [k \in {sA} |-> Str(sHi)]
       /\ e.collection_id \in DOMAIN collections
       /\ collections[e.collection_id].fields = Arr(<<fFlag, fCount>>)
       /\ validateEntryData(<<fFlag, fCount>>, e.data) # Return(e.data)

\* The status the code must store for a supplied one.
PublishedIffExact(status) == IF status = Str(<<"published">>) THEN "published" ELSE "draft"

\* C16: every stored entry's status is draft or published; after a successful
\* create, and after a successful update that supplies a status, it is
\* published exactly when the body's status is the string "published".
C16_StatusTwoValued ==
  [][/\ \A e \in Rows(entries') : e.status \in {"draft", "published"}
     /\ \A slug \in SlugInputs, body \in ContentBodies :
          /\ (response'.op = "POST entry" /\ response'.status = 201 /\ PostEntry(slug, body))
             => entries'[seq'.entries].status = PublishedIffExact(body.status)
          /\ \A id \in DOMAIN entries :
               (/\ response'.op = "PUT entry" /\ response'.status = 200
                /\ body.status # Undefined
                /\ PutEntry(slug, id, body))
               => entries'[id].status = PublishedIffExact(body.status)]_vars

\* After a successful update, a published entry and a draft one are stored.
C16_Witness ==
  /\ response.op = "PUT entry" /\ response.status = 200
  /\ \E e1, e2 \in Rows(entries) : e1.status = "published" /\ e2.status = "draft"

\* What validateEntryData makes of the data of a body for the collection
\* under slug: createEntry passes data || {}.
CleanedFor(slug, entryData) == ValidateAgainst(getCollectionBySlug(slug).value, entryData)

\* C17: the data a successful create or data-supplying update stores is the
\* cleaned output of validateEntryData; when validateEntryData fails the
\* request is answered with its ValidationError and no entry is inserted or
\* changed.
C17_StoredIsCleaned ==
  [][\A slug \in SlugInputs, body \in ContentBodies :
       getCollectionBySlug(slug).kind = "return"
       => /\ (response'.op = "POST entry" /\ PostEntry(slug, body))
             => LET cleaned == CleanedFor(slug, IF Truthy(body.data) THEN body.data.v ELSE << >>)
                IN  IF cleaned.kind = "return"
                    THEN response'.status = 201
                           => entries'[seq'.entries].data = cleaned.value
                    ELSE response'.error = "ValidationError" /\ entries' = entries
          /\ \A id \in DOMAIN entries :
               (/\ response'.op = "PUT entry"
                /\ body.data # Undefined
                /\ entries[id].collection_id = getCollectionBySlug(slug).value.id
                /\ PutEntry(slug, id, body))
               => LET cleaned == CleanedFor(slug, body.data.v)
                  IN  IF cleaned.kind = "return"
                      THEN response'.status = 200 => entries'[id].data = cleaned.value
                      ELSE response'.error = "ValidationError" /\ entries' = entries]_vars

\* C21: for a string field whose definition sets maxLength, 0 included, a
\* string longer than maxLength makes validateEntryData fail with a detail on
\* the field that cites the limit, and a non-empty string within the limit
\* is returned unchanged.
C21_LengthLimit ==
  (ValidatedEntryData /\ call.fields \in LimitFields /\ call.data \in LimitData) =>
    LET field == call.fields[1]
        value == call.data[sA]
    IN  (field.maxLength # Undefined /\ value.t = "string" /\ value.v # << >>)
        => IF Len(value.v) > field.maxLength.v
           THEN /\ FailedValidation(call.result)
                /\ \E k \in 1..Len(call.result.error.details) :
                     call.result.error.details[k]
                       = [field |-> sA,
                          message |-> "a must be at most "
                                        \o Text(IntToString(field.maxLength.v))
                                        \o " characters"]
           ELSE call.result = Return([k \in {sA} |-> value])

\* The names that elements before i have given to the list.
NamesBefore(fields, i) ==
  {fields[j].name.v : j \in {x \in 1..(i - 1) : ~NameMissing(fields[x])}}

\* What element i of a field list violates, taken on its own: its name
\* (missing, or the name of an earlier element), its type, its options.
DefinitionViolations(fields, i) ==
  CheckName(fields[i], i, NamesBefore(fields, i)).errors
    \o CheckType(fields[i], i) \o CheckOptions(fields[i], i)

\* What field i violates in the data, taken on its own.
EntryViolations(fields, D, i) == CheckField(fields[i], D).errors

\* C22: each validator fails exactly when some element of the field list has
\* a violation, and the details of its one ValidationError are the violations
\* of every element, in field-list order: nothing after the first violation
\* is skipped.
C22_AllViolationsReported ==
  /\ ValidatedDefinitions
     => LET all == Flatten([i \in 1..Len(call.fields.v) |->
                             DefinitionViolations(call.fields.v, i)])
        IN  IF all = << >> THEN call.result.kind = "return"
            ELSE FailedValidation(call.result) /\ call.result.error.details = all
  /\ ValidatedEntryData
     => LET all == Flatten([i \in 1..Len(call.fields) |->
                             EntryViolations(call.fields, call.data, i)])
        IN  IF all = << >> THEN call.result.kind = "return"
            ELSE FailedValidation(call.result) /\ call.result.error.details = all

\* validateEntryData has failed on a list whose first and second field each
\* have a violation, with a detail for each.
C22_Witness ==
  /\ ValidatedEntryData
  /\ Len(call.fields) = 2
  /\ EntryViolations(call.fields, call.data, 1) # << >>
  /\ EntryViolations(call.fields, call.data, 2) # << >>
  /\ call.fields[1].name # call.fields[2].name
  /\ call.result.kind = "throw"
  /\ Len(call.result.error.details) = 2

Satisfies(row, collection, query) ==
  /\ row.collection_id = collection.id
  /\ Truthy(query.status) => row.status = Text(query.status.v)
  /\ \A k \in 1..Len(query.filters.entries) :
       Get(row.data, query.filters.entries[k][1]) = query.filters.entries[k][2]
C24_Listing ==
  (response.op = "GET entries" /\ response.status = 200) =>
    LET listed == call.result.value
        satisfying == {id \in DOMAIN entries : Satisfies(entries[id], call.collection, call.query)}
    IN  /\ \A k \in 1..Len(listed.data) :
             Satisfies(listed.data[k], call.collection, call.query)
        /\ Len(listed.data) <= listed.pagination.per_page
        /\ listed.pagination.total = Cardinality(satisfying)
        /\ listed.pagination.total_pages * listed.pagination.per_page >= listed.pagination.total
        /\ listed.pagination.total_pages >= 0
        /\ (listed.pagination.total_pages - 1) * listed.pagination.per_page < listed.pagination.total

\* The same holds of every listing whose filter names hold no quote.
ListingPlainNames ==
  (/\ response.op = "GET entries" /\ response.status = 200
   /\ \E k \in 1..Len(call.query.filters.entries) : HasQuote(call.query.filters.entries[k][1]))
  \/ C24_Listing

\* A listing of one collection that holds an entry of another.
ListedFromAnotherCollection ==
  /\ response.op = "GET entries" /\ response.status = 200
  /\ \E k \in 1..Len(call.result.value.data) :
       call.result.value.data[k].collection_id # call.collection.id


\* The fields of a list a collection can hold carry distinct names.
DistinctNames(fields) ==
  \A i, j \in 1..Len(fields) : i # j => fields[i].name # fields[j].name

\* An optional field for which the data carries no value.
OptionalUnset(field, D) ==
  /\ ~Truthy(field.required)
  /\ Get(D, field.name.v) \in {Undefined, Null, Str(<< >>)}

DefaultsWhateverTheNames ==
  ValidatedEntryData =>
    \A i \in 1..Len(call.fields) :
      (OptionalUnset(call.fields[i], call.data) /\ call.result.kind = "return")
        => call.result.value[call.fields[i].name.v] = DefaultValue(call.fields[i])

C26_CollectionIdKept ==
  [][\A id \in (DOMAIN entries) \cap (DOMAIN entries') :
       entries'[id].collection_id = entries[id].collection_id]_vars

\* An entry of the first of two collections has been updated.
C26_Witness ==
  /\ response.op = "PUT entry" /\ response.status = 200
  /\ Cardinality(DOMAIN collections) = 2
  /\ \E id \in DOMAIN entries : entries[id].collection_id = 1


\* C27: getDb throws 'Database not initialized' whenever it is called before
\* an initDatabase call has completed; afterwards it returns the one handle;
\* no number of initDatabase calls, overlapping or not, constructs a second
\* handle.
C27_SingleHandle ==
  call.fn = "initDatabase" =>
    /\ call.handles <= 1
    /\ call.got # Pending =>
         IF call.early THEN call.got = Throw(NotInitialized)
         ELSE call.got = Return(db)

\* The part of it that concerns the handle: at most one is ever constructed,
\* getDb throws while there is none and returns it once there is.
OneHandle ==
  /\ call.fn = "initDatabase" => call.handles <= 1
  /\ [][call.fn = "initDatabase" =>
          /\ db # Undefined => db' = db
          /\ CallGetDb => call'.got = (IF call.handles = 0 THEN Throw(NotInitialized)
                                       ELSE Return(db))]_vars

\* getDb has returned the handle while no initDatabase call had completed.
HandleBeforeCompletion ==
  /\ call.fn = "initDatabase"
  /\ call.early
  /\ call.got.kind = "return"


\* The names of a field list.
NamesOf(fields) == {fields[i].name.v : i \in 1..Len(fields)}

\* C28: when validateEntryData succeeds, the keys of the object it returns are
\* exactly the names of the field list.
C28_KeysAreFieldNames ==
  (ValidatedEntryData /\ call.result.kind = "return")
    => DOMAIN call.result.value = NamesOf(call.fields)

\* The same for the field lists without the name "__proto__".
KeysOfPlainNames ==
  (ValidatedEntryData /\ call.result.kind = "return" /\ sProto \notin NamesOf(call.fields))
    => DOMAIN call.result.value = NamesOf(call.fields)


\* C29: when one updateEntry call supplies only data and another, on the same
\* entry, only a status, and both succeed, the stored entry carries the data of
\* the one and the status of the other.
C29_BothUpdatesKept ==
  call.fn = "updateEntry" =>
    \A p, q \in Processes :
      (/\ call.request[p].pc = "done" /\ call.request[p].status = 200
       /\ call.request[q].pc = "done" /\ call.request[q].status = 200
       /\ call.request[p].body.data # Undefined /\ call.request[p].body.status = Undefined
       /\ call.request[q].body.data = Undefined /\ call.request[q].body.status # Undefined)
      => /\ entries[1].data = call.request[p].body.data.v
         /\ entries[1].status = PublishedIffExact(call.request[q].body.status)



\* C30: every stored collection's slug is slugify of its stored name, the
\* stored name has no whitespace at either end, and the slug is not empty.
C30_SlugOfName ==
  \A c \in Rows(collections) :
    /\ c.slug = slugify(c.name)
    /\ Trim(c.name) = c.name
    /\ c.slug # << >>

\* The first two parts alone.
SlugAndNameAgree ==
  \A c \in Rows(collections) : c.slug = slugify(c.name) /\ Trim(c.name) = c.name

\* A collection has been created, not renamed, and its slug is empty.
CreatedWithEmptySlug ==
  /\ response.op = "POST collection" /\ response.status = 201
  /\ \E c \in Rows(collections) : c.slug = << >> /\ c.name = nBang

====
